---- MODULE Spec2Model ----
(***************************************************************************)
(* Model of the prpl data-model visualizer core:                           *)
(*   dm_visualizers/utils.py            parse_dm, get_attr                 *)
(*   dm_visualizers/show_logical_stack.py  resolve_name, get_lower_layers, *)
(*                                         walk_stack                      *)
(*   dm_visualizers/show_firewall_rules.py discover_chains, discover_rules,*)
(*                                         print_chain and its renderers   *)
(*   dm_visualizers/utils.py            display_width, pad_display,        *)
(*                                      fit_display, hline, boxline,       *)
(*                                      box_width                          *)
(*   dm_visualizers/show_wan_manager.py    print_wan_mode and its renderers*)
(*   visualize.py                       resolve_visualizer,                *)
(*                                      select_interactive, main           *)
(*                                                                         *)
(* A Python str is a sequence of one-character strings.  A Python dict is  *)
(* a sequence of [k, v] records with pairwise different keys, in insertion *)
(* order.  None is the one-element tuple <<"None">>, which no str equals.  *)
(***************************************************************************)
EXTENDS Integers, Sequences, FiniteSets, TLC

VARIABLES
    dm,      \* the store: the dict parse_dm builds and every reader is handed
    root,    \* walk_stack: the obj_path of the outermost call
    stack,   \* walk_stack: the live calls, outermost first
    out,     \* walk_stack: the lines printed by the current outermost call
    pc,      \* position of the operation under way
    run,     \* walk_stack: 1 during the first outermost call, 2 during the second
    out1,    \* walk_stack: the lines the first outermost call printed
    arg,     \* the arguments of the function applied (pure-function specifications)
    res,     \* the value it returned
    src,     \* parse_dm: the lines of the file
    ln,      \* parse_dm: the number of lines read so far
    steps    \* the number of steps taken since the initial state

vars == <<dm, root, stack, out, pc, run, out1, arg, res, src, ln, steps>>

----------------------------------------------------------------------------
(* Python str operations                                                   *)

None == <<"None">>

\* str.strip() with no argument strips whitespace
Whitespace == {" ", "\t", "\n", "\r"}

RECURSIVE LStripSet(_, _)
LStripSet(s, cs) ==
    IF s # <<>> /\ Head(s) \in cs THEN LStripSet(Tail(s), cs) ELSE s

RECURSIVE RStripSet(_, _)
RStripSet(s, cs) ==
    IF s # <<>> /\ s[Len(s)] \in cs THEN RStripSet(SubSeq(s, 1, Len(s) - 1), cs) ELSE s

\* s.strip()
Strip(s) == LStripSet(RStripSet(s, Whitespace), Whitespace)

\* s.strip('"')
StripQuotes(s) == LStripSet(RStripSet(s, {"\""}), {"\""})

\* s.rstrip('.')
RStripDot(s) == RStripSet(s, {"."})

\* s.split(c): always at least one element
RECURSIVE SplitFrom(_, _, _, _)
SplitFrom(s, c, i, cur) ==
    IF i > Len(s) THEN <<cur>>
    ELSE IF s[i] = c THEN <<cur>> \o SplitFrom(s, c, i + 1, <<>>)
    ELSE SplitFrom(s, c, i + 1, Append(cur, s[i]))

Split(s, c) == SplitFrom(s, c, 1, <<>>)

\* whether pat occurs in s at position i
MatchAt(s, pat, i) ==
    /\ i + Len(pat) - 1 <= Len(s)
    /\ \A j \in 1..Len(pat) : s[i + j - 1] = pat[j]

\* s.replace(pat, ''), pat not empty
RECURSIVE RemoveFrom(_, _, _)
RemoveFrom(s, pat, i) ==
    IF i > Len(s) THEN <<>>
    ELSE IF MatchAt(s, pat, i) THEN RemoveFrom(s, pat, i + Len(pat))
    ELSE <<s[i]>> \o RemoveFrom(s, pat, i + 1)

RemoveAll(s, pat) == RemoveFrom(s, pat, 1)

\* Python truthiness of an Optional[str]
Truthy(v) == v # None /\ v # <<>>

----------------------------------------------------------------------------
(* Python dict operations on the store                                     *)

DictKeys(d) == {d[i].k : i \in 1..Len(d)}

DictHas(d, key) == \E i \in 1..Len(d) : d[i].k = key

DictGet(d, key) == d[CHOOSE i \in 1..Len(d) : d[i].k = key].v

\* d.setdefault(key, val): the first value of a key stays
DictSetDefault(d, key, val) ==
    IF DictHas(d, key) THEN d ELSE Append(d, [k |-> key, v |-> val])

\* d[key] = val: an existing key keeps its place, a new key goes last
DictSet(d, key, val) ==
    IF DictHas(d, key)
    THEN [i \in 1..Len(d) |-> IF d[i].k = key THEN [k |-> key, v |-> val] ELSE d[i]]
    ELSE Append(d, [k |-> key, v |-> val])

----------------------------------------------------------------------------
(* The literals of the source                                              *)

Dot == <<".">>
DeviceDot == <<"D", "e", "v", "i", "c", "e", ".">>
NameAttr == <<"N", "a", "m", "e">>
AliasAttr == <<"A", "l", "i", "a", "s">>
StatusAttr == <<"S", "t", "a", "t", "u", "s">>
EnableAttr == <<"E", "n", "a", "b", "l", "e">>
LowerLayersAttr == <<"L", "o", "w", "e", "r", "L", "a", "y", "e", "r", "s">>

----------------------------------------------------------------------------
(* utils.get_attr                                                          *)

\* the single-separator form only: what get_attr would be without its fallback
get_attr_single(d, prefix, attr) ==
    IF DictHas(d, prefix \o Dot \o attr) THEN DictGet(d, prefix \o Dot \o attr) ELSE None

get_attr(d, prefix, attr) ==
    IF DictHas(d, prefix \o Dot \o attr) THEN DictGet(d, prefix \o Dot \o attr)
    ELSE IF DictHas(d, prefix \o Dot \o Dot \o attr)
         THEN DictGet(d, prefix \o Dot \o Dot \o attr)
    ELSE None

----------------------------------------------------------------------------
(* show_logical_stack.resolve_name, get_lower_layers                       *)

NotBlank(v) == Truthy(v) /\ Strip(v) # <<>>

\* Alias before Name: the precedence reversed
resolve_name_alias_first(d, obj_path) ==
    LET obj == RStripDot(obj_path)
        name == get_attr(d, obj, NameAttr)
        alias == get_attr(d, obj, AliasAttr)
    IN  IF NotBlank(alias) THEN alias
        ELSE IF NotBlank(name) THEN name
        ELSE <<>>

\* the path looked up as given, its trailing separator kept
resolve_name_as_given(d, obj_path) ==
    LET name == get_attr(d, obj_path, NameAttr)
        alias == get_attr(d, obj_path, AliasAttr)
    IN  IF NotBlank(name) THEN name
        ELSE IF NotBlank(alias) THEN alias
        ELSE <<>>

resolve_name(d, obj_path) ==
    LET obj == RStripDot(obj_path)
        name == get_attr(d, obj, NameAttr)
        alias == get_attr(d, obj, AliasAttr)
    IN  IF NotBlank(name) THEN name
        ELSE IF NotBlank(alias) THEN alias
        ELSE <<>>

\* [r.strip().rstrip('.') for r in parts if r.strip()]
RECURSIVE StripRefs(_)
StripRefs(parts) ==
    IF parts = <<>> THEN <<>>
    ELSE (IF Strip(Head(parts)) # <<>>
          THEN <<RStripDot(Strip(Head(parts)))>>
          ELSE <<>>) \o StripRefs(Tail(parts))

get_lower_layers(d, obj_path) ==
    LET val == get_attr(d, obj_path, LowerLayersAttr)
    IN  IF ~Truthy(val) THEN <<>> ELSE StripRefs(Split(val, ","))

----------------------------------------------------------------------------
(* show_logical_stack.walk_stack                                           *)

\* The deepest nesting of walk_stack calls the interpreter allows before it
\* raises RecursionError (CPython: sys.getrecursionlimit(), 1000 by default,
\* less the frames below the outermost call).
MaxCallDepth == 4

\* The label walk_stack builds for obj (lines 46-51)
Label(d, obj) ==
    LET name == resolve_name(d, obj)
        st == get_attr(d, obj, StatusAttr)
        status == IF Truthy(st) THEN st ELSE <<>>
    IN  RemoveAll(obj, DeviceDot)
        \o (IF name # <<>> THEN <<" ", " ", "(">> \o name \o <<")">> ELSE <<>>)
        \o (IF status # <<>> THEN <<" ", " ", "[">> \o status \o <<"]">> ELSE <<>>)

\* the depth walk_stack hands to the calls it makes
ChildDepthSame(depth) == depth

ChildDepth(depth) == depth + 1

\* the order in which the for loop takes the lower layers
RECURSIVE Reversed(_)
Reversed(xs) == IF xs = <<>> THEN <<>> ELSE Append(Reversed(Tail(xs)), Head(xs))

LoopOrder(lowers) == lowers

\* One call of walk_stack up to its for loop: the line it prints and the
\* frame it then holds (i: the position in lowers of the next recursive call).
WalkBody(d, obj_path, depth) ==
    LET obj == RStripDot(obj_path)
    IN  [line  |-> [path |-> obj, depth |-> depth, label |-> Label(d, obj)],
         frame |-> [obj |-> obj, depth |-> depth,
                    lowers |-> LoopOrder(get_lower_layers(d, obj)), i |-> 1]]

Top == stack[Len(stack)]

\* the call the innermost for loop makes next: walk_stack(dm, lower, depth + 1)
CalleeBody == WalkBody(dm, Top.lowers[Top.i], ChildDepth(Top.depth))

\* the object of that call has been printed before
CalleeSeen == \E n \in 1..Len(out) : out[n].path = CalleeBody.line.path

\* the outermost call: walk_stack(dm, root), depth defaulting to 0
WalkStart ==
    /\ pc = "start"
    /\ stack' = <<WalkBody(dm, root, 0).frame>>
    /\ out' = Append(out, WalkBody(dm, root, 0).line)
    /\ pc' = "walking"
    /\ steps' = steps + 1
    /\ UNCHANGED <<dm, root, run, out1, arg, res, src, ln>>

\* the for loop with a visited guard: an object already printed is skipped
WalkDescendUnvisited ==
    /\ pc = "walking"
    /\ Top.i <= Len(Top.lowers)
    /\ Len(stack) < MaxCallDepth
    /\ stack' = IF CalleeSeen THEN [stack EXCEPT ![Len(stack)].i = @ + 1]
                 ELSE Append([stack EXCEPT ![Len(stack)].i = @ + 1], CalleeBody.frame)
    /\ out' = IF CalleeSeen THEN out ELSE Append(out, CalleeBody.line)
    /\ steps' = steps + 1
    /\ UNCHANGED <<dm, root, pc, run, out1, arg, res, src, ln>>

\* line 61: the for loop makes its next recursive call
WalkDescend ==
    /\ pc = "walking"
    /\ Top.i <= Len(Top.lowers)
    /\ Len(stack) < MaxCallDepth
    /\ stack' = Append([stack EXCEPT ![Len(stack)].i = @ + 1], CalleeBody.frame)
    /\ out' = Append(out, CalleeBody.line)
    /\ steps' = steps + 1
    /\ UNCHANGED <<dm, root, pc, run, out1, arg, res, src, ln>>

\* line 61 at the interpreter's limit: RecursionError unwinds every call
WalkOverflow ==
    /\ pc = "walking"
    /\ Top.i <= Len(Top.lowers)
    /\ Len(stack) >= MaxCallDepth
    /\ stack' = <<>>
    /\ pc' = "raised"
    /\ steps' = steps + 1
    /\ UNCHANGED <<dm, root, out, run, out1, arg, res, src, ln>>

\* the for loop is exhausted: the call returns to its caller
WalkReturn ==
    /\ pc = "walking"
    /\ Top.i > Len(Top.lowers)
    /\ stack' = SubSeq(stack, 1, Len(stack) - 1)
    /\ pc' = IF Len(stack) = 1 THEN "done" ELSE "walking"
    /\ steps' = steps + 1
    /\ UNCHANGED <<dm, root, out, run, out1, arg, res, src, ln>>

\* a second call that goes on from what the first left behind
WalkAgainShared ==
    /\ pc \in {"done", "raised"}
    /\ run = 1
    /\ run' = 2
    /\ out1' = out
    /\ pc' = "start"
    /\ steps' = steps + 1
    /\ UNCHANGED <<dm, root, stack, out, arg, res, src, ln>>

\* a second, fresh call from the same root on the same store
WalkAgain ==
    /\ pc \in {"done", "raised"}
    /\ run = 1
    /\ run' = 2
    /\ out1' = out
    /\ out' = <<>>
    /\ stack' = <<>>
    /\ pc' = "start"
    /\ steps' = steps + 1
    /\ UNCHANGED <<dm, root, arg, res, src, ln>>

(* The stores walked: three objects, each with a LowerLayers list over the  *)
(* three, the lists holding MaxEdges references in all at most.  Each       *)
(* object's dump line has its own shape: trailing separators, blanks around *)
(* the commas, the doubled separator before the attribute name.             *)

MaxEdges == 3

TopPath == DeviceDot \o <<"L", ".", "1">>
MidPath == DeviceDot \o <<"I", ".", "1">>
LowPath == DeviceDot \o <<"E", ".", "1">>
NodePaths == <<TopPath, MidPath, LowPath>>

RECURSIVE Join(_, _, _)
Join(refs, sep, suffix) ==
    IF refs = <<>> THEN <<>>
    ELSE IF Len(refs) = 1 THEN Head(refs) \o suffix
    ELSE Head(refs) \o suffix \o sep \o Join(Tail(refs), sep, suffix)

Entry(key, val) == [k |-> key, v |-> val]

\* the dump entries of a store whose objects' lower layers are g[1], g[2], g[3]
WalkStore(g) ==
    <<Entry(TopPath \o Dot \o NameAttr, <<"w", "a", "n">>),
      Entry(TopPath \o Dot \o LowerLayersAttr, Join(g[1], <<",">>, Dot)),
      Entry(MidPath \o Dot \o Dot \o AliasAttr, <<"b", "r">>),
      Entry(MidPath \o Dot \o Dot \o LowerLayersAttr,
            <<" ">> \o Join(g[2], <<" ", ",", " ">>, <<>>) \o <<",", " ">>),
      Entry(LowPath \o Dot \o NameAttr, <<" ">>),
      Entry(LowPath \o Dot \o AliasAttr, <<"e", "0">>),
      Entry(LowPath \o Dot \o StatusAttr, <<"U", "p">>)>>
    \o (IF g[3] = <<>> THEN <<>>
        ELSE <<Entry(LowPath \o Dot \o LowerLayersAttr, Join(g[3], <<",">>, <<>>))>>)

EdgeLists == UNION {[1..n -> {TopPath, MidPath, LowPath}] : n \in 0..MaxEdges}

Roots == {TopPath, MidPath, LowPath, TopPath \o Dot}

Idle == <<>>

Init ==
    /\ \E e \in EdgeLists : \E c1 \in 0..Len(e) : \E c2 \in c1..Len(e) :
          dm = WalkStore(<<SubSeq(e, 1, c1), SubSeq(e, c1 + 1, c2),
                           SubSeq(e, c2 + 1, Len(e))>>)
    /\ root \in Roots
    /\ stack = <<>>
    /\ out = <<>>
    /\ pc = "start"
    /\ run = 1
    /\ out1 = <<>>
    /\ arg = Idle /\ res = Idle /\ src = Idle /\ ln = 0
    /\ steps = 0

Next == WalkStart \/ WalkDescend \/ WalkOverflow \/ WalkReturn \/ WalkAgain

Spec == Init /\ [][Next]_vars

----------------------------------------------------------------------------
(* Properties of walk_stack                                                *)

RootObj == RStripDot(root)

\* the references the walk follows from object p
Lowers(p) == get_lower_layers(dm, RStripDot(p))

\* a LowerLayers cycle can be reached from p, onpath being the objects above it
RECURSIVE HasCycleFrom(_, _)
HasCycleFrom(p, onpath) ==
    \/ p \in onpath
    \/ \E i \in 1..Len(Lowers(p)) : HasCycleFrom(Lowers(p)[i], onpath \cup {p})

CycleFromRoot == HasCycleFrom(RootObj, {})

\* the number of lower-layer chains of exactly d references that lead from p to q
RECURSIVE SumOver(_, _, _, _)
RECURSIVE NumChains(_, _, _)
NumChains(p, q, d) ==
    IF d = 0 THEN (IF p = q THEN 1 ELSE 0)
    ELSE SumOver(Lowers(p), 1, q, d - 1)
SumOver(ls, i, q, d) ==
    IF i > Len(ls) THEN 0 ELSE NumChains(ls[i], q, d) + SumOver(ls, i + 1, q, d)

\* the objects of the store walked
Objects == {TopPath, MidPath, LowPath}

\* how many lines of the output are for path p at depth d
Emitted(p, d) == Cardinality({i \in 1..Len(out) : out[i].path = p /\ out[i].depth = d})

\* the line under which line k was printed: the last line before k one level up
ParentsOf(k) == {j \in 1..(k - 1) : out[j].depth = out[k].depth - 1}
Max(S) == CHOOSE x \in S : \A y \in S : y <= x
Parent(k) == Max(ParentsOf(k))

\* the paths printed directly under line j, in the order printed
RECURSIVE ChildrenFrom(_, _)
ChildrenFrom(j, k) ==
    IF k > Len(out) THEN <<>>
    ELSE (IF ParentsOf(k) # {} /\ Parent(k) = j THEN <<out[k].path>> ELSE <<>>)
         \o ChildrenFrom(j, k + 1)
Children(j) == ChildrenFrom(j, j + 1)

\* the call that printed line j has returned
Returned(j) == pc = "done" \/ \E m \in (j + 1)..Len(out) : out[m].depth <= out[j].depth

IsPrefix(a, b) == Len(a) <= Len(b) /\ SubSeq(b, 1, Len(a)) = a

\* C1: the output is a depth-first pre-order listing: the root comes first at
\* depth 0; every later line stands below a line one level up with only deeper
\* or equally deep lines in between (so a lower layer's whole subtree precedes
\* the next lower layer); and the lines directly under a line are its
\* get_lower_layers result, in that order, complete once its call has returned.
PreOrderInv ==
    /\ Len(out) >= 1 => out[1].path = RootObj /\ out[1].depth = 0
    /\ \A k \in 2..Len(out) :
          /\ out[k].depth >= 1
          /\ ParentsOf(k) # {}
          /\ \A m \in (Parent(k) + 1)..(k - 1) : out[m].depth >= out[k].depth
    /\ \A j \in 1..Len(out) :
          /\ IsPrefix(Children(j), Lowers(out[j].path))
          /\ Returned(j) => Children(j) = Lowers(out[j].path)

\* a finished walk in which the root has two different lower layers, the first
\* of them with a lower layer of its own
PreOrderWitness ==
    /\ pc = "done"
    /\ Len(out) >= 4
    /\ out[2].depth = 1 /\ out[3].depth = 2 /\ out[4].depth = 1
    /\ out[2].path # out[4].path

\* C2 as stated: on an acyclic store a finished walk has printed every
\* reachable path exactly once, at its distance from the root.
VisitedExactlyOnce ==
    (pc = "done" /\ ~CycleFromRoot) =>
        \A p \in Objects :
            (\E d \in 0..MaxCallDepth : NumChains(RootObj, p, d) > 0) =>
                /\ Cardinality({i \in 1..Len(out) : out[i].path = p}) = 1
                /\ \A i \in 1..Len(out) :
                      out[i].path = p => NumChains(RootObj, p, out[i].depth) > 0

\* C2 as amended: a finished walk has printed each path once per lower-layer
\* chain leading to it from the root, each time at the length of that chain;
\* a path that only one chain reaches is printed exactly once.
VisitedOncePerChain ==
    (pc = "done" /\ ~CycleFromRoot) =>
        /\ \A i \in 1..Len(out) : out[i].path \in Objects
        /\ \A p \in Objects : \A d \in 0..MaxCallDepth :
              Emitted(p, d) = NumChains(RootObj, p, d)

\* a finished walk over a store where one object is the lower layer of two
\* visited objects
SharedLowerWitness ==
    /\ pc = "done"
    /\ \E i, j \in 1..Len(out) :
          /\ i < j
          /\ out[i].path = out[j].path
          /\ out[i].depth # out[j].depth
          /\ out[Parent(i)].path # out[Parent(j)].path

\* the number of calls a walk from p makes, p included (no cycle below p)
RECURSIVE SumCalls(_, _)
RECURSIVE Calls(_)
Calls(p) == 1 + SumCalls(Lowers(p), 1)
SumCalls(ls, i) == IF i > Len(ls) THEN 0 ELSE Calls(ls[i]) + SumCalls(ls, i + 1)

\* the steps a call under way still has to take: its own return and, for each
\* lower layer not yet walked, one step into and one out of every call below it
RECURSIVE StepsLeftIn(_)
StepsLeftIn(frames) ==
    IF frames = <<>> THEN 0
    ELSE 1 + 2 * SumCalls(Head(frames).lowers, Head(frames).i) + StepsLeftIn(Tail(frames))

\* the steps left until the second call has returned
StepsLeft ==
    (IF pc = "start" THEN 2 * Calls(RootObj) ELSE StepsLeftIn(stack))
    + (IF run = 1 THEN 1 + 2 * Calls(RootObj) ELSE 0)

Finished == pc = "done" /\ run = 2

\* some step of the walk can be taken: the guards of its five actions
CanStep ==
    \/ pc = "start"
    \/ pc = "walking" /\ stack # <<>>
    \/ pc \in {"done", "raised"} /\ run = 1

\* C3: on a store with no reachable cycle walk_stack terminates: until the
\* second call has returned a step can always be taken, and the steps taken
\* and the steps left always add up to the four steps per call of the two walks
\* plus the one between them, so none are left after that many steps, which is
\* exactly when the second call has returned; it has then printed the same
\* finite sequence of lines as the first.
TerminatesAndRepeats ==
    ~CycleFromRoot =>
        /\ Finished \/ CanStep
        /\ StepsLeft >= 0
        /\ steps + StepsLeft = 4 * Calls(RootObj) + 1
        /\ StepsLeft = 0 <=> Finished
        /\ Finished => Len(out) = Calls(RootObj) /\ out = out1

\* the second call has returned after printing several lines
SecondCallWitness == pc = "done" /\ run = 2 /\ Len(out) >= 3 /\ out = out1

\* C4 as stated: with a reachable cycle the walk never ends.
CycleNeverEnds == CycleFromRoot => pc \notin {"done", "raised"}

\* C4 as amended: with a reachable cycle the walk never returns; it prints the
\* objects on the cycle again at ever greater depth, one level per nested call,
\* until the interpreter's recursion limit ends it with RecursionError.
CycleNeverReturns ==
    CycleFromRoot =>
        /\ pc # "done"
        /\ pc = "raised" =>
              /\ \A d \in 0..(MaxCallDepth - 1) : \E i \in 1..Len(out) : out[i].depth = d
              /\ \E i, j \in 1..Len(out) :
                    /\ out[i].path = out[j].path
                    /\ out[i].depth < out[j].depth
                    /\ HasCycleFrom(out[j].path, {}) 

\* the walk of a two-object cycle has hit the limit
CycleWitness ==
    /\ pc = "raised"
    /\ \E i \in 1..Len(out) : out[i].path # RootObj /\ RootObj \in {Lowers(out[i].path)[n] : n \in 1..Len(Lowers(out[i].path))}

----------------------------------------------------------------------------
(* get_attr, resolve_name and get_lower_layers applied to a store          *)

ObjPath == DeviceDot \o <<"X">>
OtherPath == DeviceDot \o <<"Y">>

\* the entry for key, or no entry when val is None
Opt(key, val) == IF val = None THEN <<>> ELSE <<Entry(key, val)>>

\* stores holding Name and Alias of ObjPath under one, two or three separators
AttrStores ==
    {Opt(ObjPath \o Dot \o NameAttr, n1)
     \o Opt(ObjPath \o Dot \o Dot \o NameAttr, n2)
     \o Opt(ObjPath \o Dot \o AliasAttr, a1)
     \o Opt(ObjPath \o Dot \o Dot \o AliasAttr, a2)
     \o Opt(ObjPath \o Dot \o Dot \o Dot \o NameAttr, n3) :
        n1 \in {None, <<>>, <<" ">>, <<"e", "t", "h", "0">>, <<" ", "n", " ">>},
        n2 \in {None, <<>>, <<"e", "t", "h", "1">>},
        a1 \in {None, <<" ">>, <<"w", "a", "n">>},
        a2 \in {None, <<"\t">>, <<"l", "a", "n">>},
        n3 \in {None, <<"x", "3">>}}

\* the most comma-separated elements a LowerLayers value of these stores holds
MaxParts == 2

Iface1 == <<"D", "e", "v", "i", "c", "e", ".", "I", "P", ".", "I", "n", "t", "e", "r", "f", "a", "c", "e", ".", "1">>
Iface2 == <<"D", "e", "v", "i", "c", "e", ".", "I", "P", ".", "I", "n", "t", "e", "r", "f", "a", "c", "e", ".", "2">>

\* the elements a LowerLayers value is made of
Parts ==
    {<<>>, <<" ">>, <<".">>, Iface1 \o Dot, Iface2 \o Dot, <<" ", "D", "e", "v", "i", "c", "e", ".", "E", ".", "1", " ">>, <<"a", " ", ".">>}

LayerValues == UNION {{Join(ps, <<",">>, <<>>) : ps \in [1..n -> Parts]} : n \in 1..MaxParts}

\* stores holding the LowerLayers of ObjPath under one or two separators
LayerStores ==
    {<<Entry(ObjPath \o sep \o LowerLayersAttr, v)>> :
        sep \in {Dot, Dot \o Dot}, v \in LayerValues}

LookupInit ==
    /\ dm \in AttrStores \cup LayerStores
    /\ arg \in [path : {ObjPath, ObjPath \o Dot, OtherPath},
                attr : {NameAttr, AliasAttr, LowerLayersAttr}]
    /\ pc = "ready"
    /\ res = Idle
    /\ root = Idle /\ stack = <<>> /\ out = <<>> /\ run = 1 /\ out1 = <<>>
    /\ src = Idle /\ ln = 0
    /\ steps = 0

CallGetAttr ==
    /\ pc = "ready"
    /\ res' = get_attr(dm, arg.path, arg.attr)
    /\ pc' = "get_attr"
    /\ steps' = steps + 1
    /\ UNCHANGED <<dm, root, stack, out, run, out1, arg, src, ln>>

CallResolveName ==
    /\ pc = "ready"
    /\ res' = resolve_name(dm, arg.path)
    /\ pc' = "resolve_name"
    /\ steps' = steps + 1
    /\ UNCHANGED <<dm, root, stack, out, run, out1, arg, src, ln>>

CallGetLowerLayers ==
    /\ pc = "ready"
    /\ res' = get_lower_layers(dm, arg.path)
    /\ pc' = "get_lower_layers"
    /\ steps' = steps + 1
    /\ UNCHANGED <<dm, root, stack, out, run, out1, arg, src, ln>>

LookupNext == CallGetAttr \/ CallResolveName \/ CallGetLowerLayers

LookupSpec == LookupInit /\ [][LookupNext]_vars

\* the store holds key with value val
Holds(key, val) == \E i \in 1..Len(dm) : dm[i].k = key /\ dm[i].v = val
HoldsKey(key) == \E i \in 1..Len(dm) : dm[i].k = key

OneDotKey == arg.path \o <<".">> \o arg.attr
TwoDotKey == arg.path \o <<".", ".">> \o arg.attr

\* C5: get_attr returns the value held under the one-separator key, or, when
\* only the two-separator key is held, the value held under that; it returns
\* None exactly when the store holds neither key.
GetAttrEitherForm ==
    pc = "get_attr" =>
        /\ HoldsKey(OneDotKey) => Holds(OneDotKey, res)
        /\ (~HoldsKey(OneDotKey) /\ HoldsKey(TwoDotKey)) => Holds(TwoDotKey, res)
        /\ res = None <=> (~HoldsKey(OneDotKey) /\ ~HoldsKey(TwoDotKey))

\* get_attr has answered from the two-separator key alone
TwoDotWitness ==
    /\ pc = "get_attr"
    /\ ~HoldsKey(OneDotKey) /\ HoldsKey(TwoDotKey)
    /\ res \notin {None, <<>>}

\* C6 as stated: get_attr on a path with a trailing separator returns what it
\* returns on the path without it.
TrailingDotNormalized ==
    (pc = "get_attr" /\ arg.path = ObjPath \o Dot) =>
        res = get_attr(dm, ObjPath, arg.attr)

\* C6 as amended: the trailing separator is removed by resolve_name, not by
\* get_attr: resolve_name on the path with a trailing separator returns what
\* it returns without it, while get_attr on such a path answers from the
\* two-separator key, else from the three-separator key, else None.
CallerNormalizes ==
    /\ (pc = "resolve_name" /\ arg.path = ObjPath \o Dot) =>
          res = resolve_name(dm, ObjPath)
    /\ (pc = "get_attr" /\ arg.path = ObjPath \o Dot) =>
          IF HoldsKey(ObjPath \o <<".", ".">> \o arg.attr)
          THEN Holds(ObjPath \o <<".", ".">> \o arg.attr, res)
          ELSE IF HoldsKey(ObjPath \o <<".", ".", ".">> \o arg.attr)
          THEN Holds(ObjPath \o <<".", ".", ".">> \o arg.attr, res)
          ELSE res = None

\* resolve_name has found the name of a path given with a trailing separator,
\* held under the one-separator key that get_attr misses on that path
CallerNormalizesWitness ==
    /\ pc = "resolve_name"
    /\ arg.path = ObjPath \o Dot
    /\ res # <<>>
    /\ Holds(ObjPath \o <<".">> \o NameAttr, res)
    /\ get_attr(dm, arg.path, NameAttr) # res

\* an attribute value that is present and not only whitespace
Usable(v) == v # None /\ \E i \in 1..Len(v) : v[i] \notin Whitespace

\* C7: resolve_name returns Name when it is present and not blank, otherwise
\* Alias when that is present and not blank, otherwise the empty string; a
\* path with no entries gives the empty string.
ResolveNamePrecedence ==
    pc = "resolve_name" =>
        LET obj == RStripDot(arg.path)
            name == get_attr(dm, obj, NameAttr)
            alias == get_attr(dm, obj, AliasAttr)
        IN  /\ Usable(name) => res = name
            /\ (~Usable(name) /\ Usable(alias)) => res = alias
            /\ (~Usable(name) /\ ~Usable(alias)) => res = <<>>
            /\ (\A i \in 1..Len(dm) : ~IsPrefix(obj, dm[i].k)) => res = <<>>

\* resolve_name has chosen between a usable Name and a different usable Alias
BothNamesWitness ==
    /\ pc = "resolve_name"
    /\ Usable(get_attr(dm, RStripDot(arg.path), NameAttr))
    /\ Usable(get_attr(dm, RStripDot(arg.path), AliasAttr))
    /\ get_attr(dm, RStripDot(arg.path), NameAttr) # get_attr(dm, RStripDot(arg.path), AliasAttr)
    /\ res = get_attr(dm, RStripDot(arg.path), NameAttr)

\* C8: no element of the get_lower_layers result is empty, begins or ends
\* with whitespace, or ends with a separator; a missing or empty LowerLayers
\* gives the empty list; "Device.IP.Interface.1.,Device.IP.Interface.2."
\* gives the two interface paths in that order, without their trailing dots.
LowerLayersClean ==
    pc = "get_lower_layers" =>
        /\ \A n \in 1..Len(res) :
              /\ res[n] # <<>>
              /\ res[n][1] \notin Whitespace
              /\ res[n][Len(res[n])] \notin Whitespace \cup {"."}
        /\ get_attr(dm, arg.path, LowerLayersAttr) \in {None, <<>>} => res = <<>>
        /\ get_attr(dm, arg.path, LowerLayersAttr) = Iface1 \o <<".", ",">> \o Iface2 \o <<".">>
              => res = <<Iface1, Iface2>>

----------------------------------------------------------------------------
(* utils.parse_dm                                                          *)

\* the most lines a dump of this model holds
MaxLines == 3

\* the lines a dump is made of, as the file iterator yields them
FileLines ==
    {<<"D", "e", "v", "i", "c", "e", ".", "a", "=", "1", "\n">>,
     <<"D", "e", "v", "i", "c", "e", ".", "a", "=", "\"", "2", "\"", "\n">>,
     <<" ", " ", "D", "e", "v", "i", "c", "e", ".", "b", "=", "x", "=", "y", " ", "\n">>,
     <<"D", "e", "v", "i", "c", "e", ".", "=", "x", "=", "y", "\n">>,
     <<"#", " ", "D", "e", "v", "i", "c", "e", ".", "a", "=", "3", "\n">>,
     <<"\n">>,
     <<"D", "e", "v", "i", "c", "e", ".", "c", "\n">>,
     <<"D", "e", "v", "i", "c", "e", ".", "b", "=", "\"", "\"", "q", "\"", "\n">>,
     <<"D", "e", "v", "i", "c", "e", ".", "c", "=", "\n">>}

Min(S) == CHOOSE x \in S : \A y \in S : x <= y

\* re.match(r'^(Device\..+?)=(.*)$', line): the positions of an '=' that
\* follows the root token and at least one more character
EqAfterPath(line) == {i \in (Len(DeviceDot) + 2)..Len(line) : line[i] = "="}
ReMatch(line) == MatchAt(line, DeviceDot, 1) /\ EqAfterPath(line) # {}
\* .+? is lazy: group 1 ends before the first such '='
Group1(line) == SubSeq(line, 1, Min(EqAfterPath(line)) - 1)
Group2(line) == SubSeq(line, Min(EqAfterPath(line)) + 1, Len(line))

ParseInit ==
    /\ src \in UNION {[1..n -> FileLines] : n \in 0..MaxLines}
    /\ dm = <<>>
    /\ ln = 0
    /\ pc = "parsing"
    /\ root = Idle /\ stack = <<>> /\ out = <<>> /\ run = 1 /\ out1 = <<>>
    /\ arg = Idle /\ res = Idle
    /\ steps = 0

\* the line the loop body works on: line = line.strip()
CurLine == Strip(src[ln + 1])

\* lines 35-38 for a line the pattern matches
ParseMatch ==
    /\ pc = "parsing"
    /\ ln < Len(src)
    /\ ReMatch(CurLine)
    /\ dm' = DictSet(dm, Group1(CurLine), StripQuotes(Group2(CurLine)))
    /\ ln' = ln + 1
    /\ steps' = steps + 1
    /\ UNCHANGED <<root, stack, out, pc, run, out1, arg, res, src>>

\* lines 35-37 for a line the pattern does not match: skipped
ParseSkip ==
    /\ pc = "parsing"
    /\ ln < Len(src)
    /\ ~ReMatch(CurLine)
    /\ ln' = ln + 1
    /\ steps' = steps + 1
    /\ UNCHANGED <<dm, root, stack, out, pc, run, out1, arg, res, src>>

\* line 39: return dm
ParseReturn ==
    /\ pc = "parsing"
    /\ ln = Len(src)
    /\ pc' = "parsed"
    /\ steps' = steps + 1
    /\ UNCHANGED <<dm, root, stack, out, run, out1, arg, res, src, ln>>

ParseNext == ParseMatch \/ ParseSkip \/ ParseReturn

ParseSpec == ParseInit /\ [][ParseNext]_vars

\* source line n without its surrounding whitespace
Line(n) == Strip(src[n])

\* line n matches the pattern: the root token, then a path, then an '='
Matching(n) ==
    /\ IsPrefix(DeviceDot, Line(n))
    /\ \E i \in 1..Len(Line(n)) : i > Len(DeviceDot) + 1 /\ Line(n)[i] = "="

\* the position of the first '=' of line n
FirstEq(n) ==
    CHOOSE i \in 1..Len(Line(n)) :
        Line(n)[i] = "=" /\ \A j \in 1..(i - 1) : Line(n)[j] # "="

\* the position of the first '=' of line n that has a character between it
\* and the root token
PathEq(n) ==
    CHOOSE i \in 1..Len(Line(n)) :
        /\ i > Len(DeviceDot) + 1
        /\ Line(n)[i] = "="
        /\ \A j \in (Len(DeviceDot) + 2)..(i - 1) : Line(n)[j] # "="

Before(n, i) == SubSeq(Line(n), 1, i - 1)
After(n, i) == SubSeq(Line(n), i + 1, Len(Line(n)))

UniqueKeys == \A i, j \in 1..Len(dm) : dm[i].k = dm[j].k => i = j

\* C9 as stated: the parsed paths are unique and, for every matching line,
\* the store holds under the line's path the text after the line's first '='
\* with its surrounding quotes stripped.
ParsedEveryLine ==
    pc = "parsed" =>
        /\ UniqueKeys
        /\ \A n \in 1..Len(src) :
              Matching(n) =>
                  Holds(Before(n, FirstEq(n)), StripQuotes(After(n, FirstEq(n))))

\* C9 as amended: the parsed paths are unique and are the paths of the
\* matching lines, a path ending at the first '=' that leaves it at least one
\* character after the root token; the store holds under each path the text
\* after that '=', quotes stripped, of the last matching line with that path.
ParsedLastLine ==
    pc = "parsed" =>
        /\ UniqueKeys
        /\ DictKeys(dm) = {Before(n, PathEq(n)) : n \in {m \in 1..Len(src) : Matching(m)}}
        /\ \A n \in 1..Len(src) :
              (/\ Matching(n)
               /\ \A m \in (n + 1)..Len(src) :
                     Matching(m) => Before(m, PathEq(m)) # Before(n, PathEq(n)))
              => Holds(Before(n, PathEq(n)), StripQuotes(After(n, PathEq(n))))

\* a dump parsed in which a path is given twice with different values
RepeatedPathWitness ==
    /\ pc = "parsed"
    /\ \E n, m \in 1..Len(src) :
          /\ n < m
          /\ Matching(n) /\ Matching(m)
          /\ Before(n, PathEq(n)) = Before(m, PathEq(m))
          /\ After(n, PathEq(n)) # After(m, PathEq(m))
          /\ Holds(Before(m, PathEq(m)), StripQuotes(After(m, PathEq(m))))

----------------------------------------------------------------------------
(* show_firewall_rules.discover_chains, discover_rules                     *)

Digits == <<"0", "1", "2", "3", "4", "5", "6", "7", "8", "9">>
IsDigit(c) == \E n \in 1..Len(Digits) : Digits[n] = c
DigitVal(c) == (CHOOSE n \in 1..Len(Digits) : Digits[n] = c) - 1

\* the value of a run of digits, underscores passed over
RECURSIVE DigitsVal(_, _)
DigitsVal(s, acc) ==
    IF s = <<>> THEN acc
    ELSE IF Head(s) = "_" THEN DigitsVal(Tail(s), acc)
    ELSE DigitsVal(Tail(s), 10 * acc + DigitVal(Head(s)))

\* int(s) for a str: blanks around, an optional sign, then digits, single
\* underscores allowed between digits; anything else is ValueError
IntBody(s) ==
    IF Strip(s) # <<>> /\ Head(Strip(s)) \in {"+", "-"} THEN Tail(Strip(s)) ELSE Strip(s)
IntOk(s) ==
    /\ IntBody(s) # <<>>
    /\ \A i \in 1..Len(IntBody(s)) :
          \/ IsDigit(IntBody(s)[i])
          \/ /\ IntBody(s)[i] = "_"
             /\ 1 < i /\ i < Len(IntBody(s))
             /\ IsDigit(IntBody(s)[i - 1]) /\ IsDigit(IntBody(s)[i + 1])
IntVal(s) ==
    IF Head(Strip(s)) = "-" THEN 0 - DigitsVal(IntBody(s), 0) ELSE DigitsVal(IntBody(s), 0)

\* str(n) for n >= 0
RECURSIVE StrOf(_)
StrOf(n) == IF n < 10 THEN <<Digits[n + 1]>> ELSE Append(StrOf(n \div 10), Digits[(n % 10) + 1])

\* x or y
OrElse(v, dflt) == IF Truthy(v) THEN v ELSE dflt

ChainPrefix == <<"D", "e", "v", "i", "c", "e", ".", "F", "i", "r", "e", "w", "a", "l", "l", ".", "C", "h", "a", "i", "n", ".">>
RuleInfix == <<".", "R", "u", "l", "e", ".">>
DotName == <<".", "N", "a", "m", "e">>
DotAlias == <<".", "A", "l", "i", "a", "s">>

\* key = head, then one or more digits, then tail: the regexes of lines 38 and 56
IdMatch(key, head, tail) ==
    /\ Len(key) > Len(head) + Len(tail)
    /\ IsPrefix(head, key)
    /\ SubSeq(key, Len(key) - Len(tail) + 1, Len(key)) = tail
    /\ \A i \in (Len(head) + 1)..(Len(key) - Len(tail)) : IsDigit(key[i])
\* int(m.group(1))
IdOf(key, head, tail) == DigitsVal(SubSeq(key, Len(head) + 1, Len(key) - Len(tail)), 0)

PROTO_MAP(raw) ==
    CASE raw = <<"6">> -> <<"T", "C", "P">>
      [] raw = <<"1", "7">> -> <<"U", "D", "P">>
      [] raw = <<"1">> -> <<"I", "C", "M", "P">>
      [] raw = <<"5", "8">> -> <<"I", "C", "M", "P", "v", "6">>
      [] raw = <<"-", "1">> -> <<"a", "n", "y">>
      [] OTHER -> <<"p", "r", "o", "t", "o", ":">> \o raw

MinusOne == <<"-", "1">>
Star == <<"*">>

\* the text discover_chains hands to int() for the chain of key
RuleCountText(d, cid) ==
    OrElse(get_attr(d, ChainPrefix \o StrOf(cid), <<"R", "u", "l", "e", "N", "u", "m", "b", "e", "r", "O", "f", "E", "n", "t", "r", "i", "e", "s">>), <<"0">>)

\* lines 45-50: the entry of chain cid, key being its Name key
ChainRecord(d, key, cid) ==
    [name |-> DictGet(d, key),
     alias |-> OrElse(get_attr(d, ChainPrefix \o StrOf(cid), AliasAttr), <<>>),
     enable |-> OrElse(get_attr(d, ChainPrefix \o StrOf(cid), EnableAttr), <<"0">>),
     rule_count |-> IntVal(RuleCountText(d, cid))]

RulePrefix(chain_id, rid) == ChainPrefix \o StrOf(chain_id) \o RuleInfix \o StrOf(rid)

\* line 65: the text discover_rules hands to int()
OrderText(d, chain_id, rid) ==
    OrElse(get_attr(d, RulePrefix(chain_id, rid), <<"O", "r", "d", "e", "r">>), StrOf(rid))

\* lines 67-103: the entry of rule rid, key being its Alias key
RuleRecord(d, key, chain_id, rid) ==
    LET prefix == RulePrefix(chain_id, rid)
        dest_port == OrElse(get_attr(d, prefix, <<"D", "e", "s", "t", "P", "o", "r", "t">>), MinusOne)
        dest_port_max == OrElse(get_attr(d, prefix, <<"D", "e", "s", "t", "P", "o", "r", "t", "R", "a", "n", "g", "e", "M", "a", "x">>), MinusOne)
        src_port == OrElse(get_attr(d, prefix, <<"S", "o", "u", "r", "c", "e", "P", "o", "r", "t">>), MinusOne)
    IN  [alias |-> DictGet(d, key),
         order |-> IntVal(OrderText(d, chain_id, rid)),
         enable |-> OrElse(get_attr(d, prefix, EnableAttr), <<"0">>),
         status |-> OrElse(get_attr(d, prefix, StatusAttr), <<>>),
         target |-> OrElse(get_attr(d, prefix, <<"T", "a", "r", "g", "e", "t">>), <<>>),
         protocol |-> PROTO_MAP(OrElse(get_attr(d, prefix, <<"P", "r", "o", "t", "o", "c", "o", "l">>), MinusOne)),
         dest_port |-> IF dest_port # MinusOne
                       THEN dest_port \o (IF dest_port_max # MinusOne
                                          THEN <<"-">> \o dest_port_max ELSE <<>>)
                       ELSE Star,
         src_port |-> IF src_port # MinusOne THEN src_port ELSE Star,
         src_ip |-> OrElse(OrElse(get_attr(d, prefix, <<"S", "o", "u", "r", "c", "e", "I", "P">>), <<>>), Star),
         dest_ip |-> OrElse(OrElse(get_attr(d, prefix, <<"D", "e", "s", "t", "I", "P">>), <<>>), Star),
         conn_state |-> OrElse(get_attr(d, prefix, <<"C", "o", "n", "n", "e", "c", "t", "i", "o", "n", "S", "t", "a", "t", "e">>), <<>>),
         ip_version |-> OrElse(get_attr(d, prefix, <<"I", "P", "V", "e", "r", "s", "i", "o", "n">>), MinusOne)]

\* sorted(chains.keys())
RECURSIVE SortedSet(_)
SortedSet(S) == IF S = {} THEN <<>> ELSE <<Min(S)>> \o SortedSet(S \ {Min(S)})

\* the dumps discovered: two chains and their rules, the counters and
\* orders holding what a dump may hold there
FirewallStores ==
    {Opt(ChainPrefix \o <<"1", ".", "N", "a", "m", "e">>, c1)
     \o Opt(ChainPrefix \o <<"1", ".", "R", "u", "l", "e", "N", "u", "m", "b", "e", "r", "O", "f", "E", "n", "t", "r", "i", "e", "s">>, n1)
     \o Opt(ChainPrefix \o <<"1", ".", "R", "u", "l", "e", ".", "1", ".", "A", "l", "i", "a", "s">>, r1)
     \o Opt(ChainPrefix \o <<"1", ".", "R", "u", "l", "e", ".", "1", ".", "O", "r", "d", "e", "r">>, o1)
     \o Opt(ChainPrefix \o <<"1", ".", "R", "u", "l", "e", ".", "1", ".", "P", "r", "o", "t", "o", "c", "o", "l">>, p1)
     \o Opt(ChainPrefix \o <<"1", ".", "R", "u", "l", "e", ".", "1", ".", "D", "e", "s", "t", "P", "o", "r", "t">>, dp)
     \o Opt(ChainPrefix \o <<"1", ".", "R", "u", "l", "e", ".", "1", ".", "D", "e", "s", "t", "P", "o", "r", "t", "R", "a", "n", "g", "e", "M", "a", "x">>, dx)
     \o Opt(ChainPrefix \o <<"2", ".", "N", "a", "m", "e">>, IF c2 = None THEN None ELSE <<"F", "w", "d">>)
     \o Opt(ChainPrefix \o <<"2", ".", ".", "R", "u", "l", "e", "N", "u", "m", "b", "e", "r", "O", "f", "E", "n", "t", "r", "i", "e", "s">>, c2)
     \o Opt(ChainPrefix \o <<"2", ".", "R", "u", "l", "e", ".", "3", ".", "A", "l", "i", "a", "s">>, r3) :
        c1 \in {None, <<"B", "a", "s", "e">>},
        n1 \in {None, <<>>, <<"2">>, <<"a", "b", "c">>, <<"-", "1">>, <<"1", "_", "0">>, <<"0", "x", "1", "0">>},
        r1 \in {None, <<"r", "1">>},
        o1 \in {None, <<>>, <<"1">>, <<"x">>, <<"+", "2">>, <<"1", ".", "5">>},
        p1 \in {None, <<"6">>, <<"9", "9">>},
        dp \in {None, <<"8", "0">>},
        dx \in {None, <<"9", "0">>},
        c2 \in {None, <<"1">>},
        r3 \in {None, <<"r", "3">>}}

DiscoverInit ==
    /\ dm \in FirewallStores
    /\ pc = "discover_chains"
    /\ ln = 0
    /\ res = [chains |-> <<>>, rules |-> <<>>]
    /\ arg = [todo |-> <<>>, rules |-> <<>>]
    /\ root = Idle /\ stack = <<>> /\ out = <<>> /\ run = 1 /\ out1 = <<>>
    /\ src = Idle
    /\ steps = 0

\* the key the for loop of the function under way is at
CurKey == dm[ln + 1].k

\* discover_chains, lines 40-50: a chain's Name key, its counter an integer
ChainsAdd ==
    /\ pc = "discover_chains"
    /\ ln < Len(dm)
    /\ IdMatch(CurKey, ChainPrefix, DotName)
    /\ IntOk(RuleCountText(dm, IdOf(CurKey, ChainPrefix, DotName)))
    /\ res' = [res EXCEPT !.chains =
                 DictSet(@, IdOf(CurKey, ChainPrefix, DotName),
                         ChainRecord(dm, CurKey, IdOf(CurKey, ChainPrefix, DotName)))]
    /\ ln' = ln + 1
    /\ steps' = steps + 1
    /\ UNCHANGED <<dm, root, stack, out, pc, run, out1, arg, src>>

\* discover_chains, line 49: int() raises ValueError
ChainsValueError ==
    /\ pc = "discover_chains"
    /\ ln < Len(dm)
    /\ IdMatch(CurKey, ChainPrefix, DotName)
    /\ ~IntOk(RuleCountText(dm, IdOf(CurKey, ChainPrefix, DotName)))
    /\ pc' = "raised"
    /\ steps' = steps + 1
    /\ UNCHANGED <<dm, root, stack, out, run, out1, arg, res, src, ln>>

\* discover_chains, lines 40-42: not a chain's Name key
ChainsSkip ==
    /\ pc = "discover_chains"
    /\ ln < Len(dm)
    /\ ~IdMatch(CurKey, ChainPrefix, DotName)
    /\ ln' = ln + 1
    /\ steps' = steps + 1
    /\ UNCHANGED <<dm, root, stack, out, pc, run, out1, arg, res, src>>

\* discover_chains returns; main goes on to the chains in sorted order
ChainsReturn ==
    /\ pc = "discover_chains"
    /\ ln = Len(dm)
    /\ pc' = IF res.chains = <<>> THEN "no_chains" ELSE "discover_rules"
    /\ arg' = [todo |-> SortedSet(DictKeys(res.chains)), rules |-> <<>>]
    /\ ln' = 0
    /\ steps' = steps + 1
    /\ UNCHANGED <<dm, root, stack, out, run, out1, res, src>>

\* the Alias keys of the rules of the chain discover_rules was called for
RuleHead == ChainPrefix \o StrOf(Head(arg.todo)) \o RuleInfix

\* discover_rules, lines 60-103: a rule's Alias key, its order an integer
RulesAdd ==
    /\ pc = "discover_rules"
    /\ ln < Len(dm)
    /\ IdMatch(CurKey, RuleHead, DotAlias)
    /\ IntOk(OrderText(dm, Head(arg.todo), IdOf(CurKey, RuleHead, DotAlias)))
    /\ arg' = [arg EXCEPT !.rules =
                 DictSet(@, IdOf(CurKey, RuleHead, DotAlias),
                         RuleRecord(dm, CurKey, Head(arg.todo), IdOf(CurKey, RuleHead, DotAlias)))]
    /\ ln' = ln + 1
    /\ steps' = steps + 1
    /\ UNCHANGED <<dm, root, stack, out, pc, run, out1, res, src>>

\* discover_rules, line 92: int() raises ValueError
RulesValueError ==
    /\ pc = "discover_rules"
    /\ ln < Len(dm)
    /\ IdMatch(CurKey, RuleHead, DotAlias)
    /\ ~IntOk(OrderText(dm, Head(arg.todo), IdOf(CurKey, RuleHead, DotAlias)))
    /\ pc' = "raised"
    /\ steps' = steps + 1
    /\ UNCHANGED <<dm, root, stack, out, run, out1, arg, res, src, ln>>

\* discover_rules, lines 60-62: not a rule's Alias key
RulesSkip ==
    /\ pc = "discover_rules"
    /\ ln < Len(dm)
    /\ ~IdMatch(CurKey, RuleHead, DotAlias)
    /\ ln' = ln + 1
    /\ steps' = steps + 1
    /\ UNCHANGED <<dm, root, stack, out, pc, run, out1, arg, res, src>>

\* discover_rules returns; main goes on to the next chain, if any
RulesReturn ==
    /\ pc = "discover_rules"
    /\ ln = Len(dm)
    /\ res' = [res EXCEPT !.rules = DictSet(@, Head(arg.todo), arg.rules)]
    /\ arg' = [todo |-> Tail(arg.todo), rules |-> <<>>]
    /\ pc' = IF Tail(arg.todo) = <<>> THEN "done" ELSE "discover_rules"
    /\ ln' = 0
    /\ steps' = steps + 1
    /\ UNCHANGED <<dm, root, stack, out, run, out1, src>>

DiscoverNext ==
    \/ ChainsAdd \/ ChainsValueError \/ ChainsSkip \/ ChainsReturn
    \/ RulesAdd \/ RulesValueError \/ RulesSkip \/ RulesReturn

DiscoverSpec == DiscoverInit /\ [][DiscoverNext]_vars

\* C10: discovery never raises, whatever the dump holds: every chain with a
\* Name key and every rule with an Alias key of a discovered chain gets an
\* entry, a counter or order that is no decimal integer giving a default.
DiscoveryNeverRaises ==
    /\ pc # "raised"
    /\ pc \in {"done", "no_chains"} =>
          \A i \in 1..Len(dm) :
              IdMatch(dm[i].k, ChainPrefix, DotName) =>
                  DictHas(res.chains, IdOf(dm[i].k, ChainPrefix, DotName))

(***************************************************************************)
(* dm_visualizers/utils.py: display_width, pad_display, fit_display,       *)
(* hline, boxline, box_width.  A code point is named by one string; the    *)
(* unicodedata tables are given for the code points the model draws from.  *)
(***************************************************************************)
LatinA == "a"
Space == " "
CombiningAcute == "U+0301"
CjkMiddle == "U+4E2D"
BoxHorizontal == "U+2500"
BoxVertical == "U+2502"
BoxDownRight == "U+250C"
BoxDownLeft == "U+2510"
CheckMark == "U+2705"
NoEntry == "U+1F6AB"
CrossMark == "U+274C"
RightArrow == "U+27A1"
VariationSelector16 == "U+FE0F"
GreenCircle == "U+1F7E2"
RedCircle == "U+1F534"
Antenna == "U+1F4E1"
BlackStar == "U+2605"

\* the box drawing block, U+2500 to U+257F
BoxDrawing ==
    {"U+2500", "U+2502", "U+250C", "U+2510", "U+2514", "U+2518", "U+251C",
     "U+2524", "U+2550", "U+2551", "U+2554", "U+2557", "U+255A", "U+255D"}

\* unicodedata.combining(ch): the canonical combining class, 0 for none
combining(ch) == IF ch = CombiningAcute THEN 230 ELSE 0

\* unicodedata.east_asian_width(ch)
east_asian_width(ch) ==
    CASE ch \in {CjkMiddle, CheckMark, NoEntry, CrossMark, GreenCircle,
                 RedCircle, Antenna} -> "W"
      [] ch \in {CombiningAcute, VariationSelector16, BlackStar}
               \cup BoxDrawing -> "A"
      [] ch = RightArrow -> "N"
      [] OTHER -> "Na"

\* lines 54-59 and 78-81: the columns one code point takes
CharWidth(ch) ==
    IF combining(ch) # 0 THEN 0
    ELSE IF east_asian_width(ch) \in {"W", "F"} THEN 2 ELSE 1

\* the sum of the columns of the code points of text: one for each that
\* takes a column, one more for each that takes two
display_width(text) ==
    Cardinality({i \in 1..Len(text) : CharWidth(text[i]) >= 1})
    + Cardinality({i \in 1..Len(text) : CharWidth(text[i]) = 2})

\* str * n: the empty string for n <= 0
Repeat(s, n) == [i \in 1..(n * Len(s)) |-> s[((i - 1) % Len(s)) + 1]]

\* pad_display that adds nothing
pad_display_none(text, width, fill) == text

pad_display(text, width, fill) ==
    LET pad == width - display_width(text)
    IN  IF pad <= 0 THEN text ELSE text \o Repeat(fill, pad)

\* lines 77-85: the code points the loop keeps, from text onward with `used`
\* columns taken
RECURSIVE Clipped(_, _, _)
Clipped(text, width, used) ==
    IF text = <<>> THEN <<>>
    ELSE IF combining(Head(text)) # 0
         THEN <<Head(text)>> \o Clipped(Tail(text), width, used)
    ELSE IF used + CharWidth(Head(text)) > width THEN <<>>
    ELSE <<Head(text)>>
         \o Clipped(Tail(text), width, used + CharWidth(Head(text)))

\* fit_display without the loop of lines 75-85
fit_display_uncut(text, width, fill) == pad_display(text, width, fill)

fit_display(text, width, fill) ==
    IF display_width(text) <= width THEN pad_display(text, width, fill)
    ELSE pad_display(Clipped(text, width, 0), width, fill)

hline(char, width, left, right) ==
    LET inner == width - Len(left) - Len(right)
    IN  left \o Repeat(char, inner) \o right

\* the default of boxline's and box_width's pad parameter
DefaultPad == 2

\* boxline whose content row is padded but never checked against the width
boxline_content(text, width, pad, fill) ==
    <<BoxVertical>> \o Repeat(<<Space>>, pad) \o text \o <<BoxVertical>>

boxline(text, width, pad, fill) ==
    LET inner == width - 2
        content == Repeat(<<Space>>, pad) \o text
    IN  IF display_width(content) > inner
        THEN <<BoxVertical>> \o content \o <<BoxVertical>>
        ELSE <<BoxVertical>> \o pad_display(content, inner, fill)
             \o <<BoxVertical>>

\* max(a, b) of two integers
Max2(a, b) == IF a >= b THEN a ELSE b

\* lines 110-111: max_line after the loop over lines
RECURSIVE MaxLine(_, _, _)
MaxLine(lines, pad, max_line) ==
    IF lines = <<>> THEN max_line
    ELSE MaxLine(Tail(lines), pad,
                 Max2(max_line, display_width(Head(lines)) + pad))

\* box_width that leaves the left padding out of the line widths
box_width_unpadded(min_width, lines, pad, title) ==
    LET inner == Max2(min_width - 2, 0)
        max_line == MaxLine(lines, 0,
                            IF Truthy(title) THEN Max2(0, display_width(title)) ELSE 0)
    IN  (IF max_line > inner THEN max_line ELSE inner) + 2

box_width(min_width, lines, pad, title) ==
    LET inner == Max2(min_width - 2, 0)
        max_line == MaxLine(lines, pad,
                            IF Truthy(title) THEN Max2(0, display_width(title)) ELSE 0)
    IN  (IF max_line > inner THEN max_line ELSE inner) + 2

\* the longest text, the widest width and the most box lines drawn from
MaxText == 3
MaxWidth == 5
MaxBoxLines == 2

RECURSIVE SeqsUpTo(_, _)
SeqsUpTo(S, n) ==
    IF n = 0 THEN {<<>>}
    ELSE LET shorter == SeqsUpTo(S, n - 1)
         IN  shorter \cup {Append(s, x) : s \in shorter, x \in S}

Texts == SeqsUpTo({LatinA, CombiningAcute, CjkMiddle}, MaxText)
BoxTexts ==
    {<<>>, <<LatinA>>, <<CjkMiddle>>, <<LatinA, CombiningAcute>>,
     <<CjkMiddle, LatinA>>, <<LatinA, LatinA, LatinA>>}
Titles == {None, <<>>, <<CombiningAcute>>, <<LatinA, CjkMiddle, LatinA>>}
Fills == {<<Space>>, <<BoxHorizontal>>}
Caps == {<<>>, <<BoxDownRight>>}

LayoutArgs(fn, text, width, lines, title, fill, left, right) ==
    [fn |-> fn, text |-> text, width |-> width, lines |-> lines,
     title |-> title, fill |-> fill, left |-> left, right |-> right]

LayoutInit ==
    /\ \/ \E t \in Texts, w \in 0..MaxWidth :
            arg = LayoutArgs("fit_display", t, w, <<>>, None, <<Space>>, <<>>, <<>>)
       \/ \E t \in Texts, w \in (-1)..MaxWidth, f \in Fills :
            arg = LayoutArgs("boxline", t, w, <<>>, None, f, <<>>, <<>>)
       \/ \E w \in (-1)..MaxWidth, f \in Fills \cup {<<CjkMiddle>>},
             l \in Caps, r \in Caps :
            arg = LayoutArgs("hline", <<>>, w, <<>>, None, f, l, r)
       \/ \E w \in (-1)..MaxWidth, ls \in SeqsUpTo(BoxTexts, MaxBoxLines),
             t \in Titles, fn \in {"box_width", "box"} :
            arg = LayoutArgs(fn, <<>>, w, ls, t, <<Space>>, <<>>, <<>>)
    /\ pc = "ready"
    /\ res = Idle
    /\ dm = <<>> /\ root = Idle /\ stack = <<>> /\ out = <<>> /\ run = 1
    /\ out1 = <<>> /\ src = Idle /\ ln = 0 /\ steps = 0

CallFitDisplay ==
    /\ pc = "ready" /\ arg.fn = "fit_display"
    /\ res' = fit_display(arg.text, arg.width, arg.fill)
    /\ pc' = "fit_display"
    /\ steps' = steps + 1
    /\ UNCHANGED <<dm, root, stack, out, run, out1, arg, src, ln>>

CallBoxline ==
    /\ pc = "ready" /\ arg.fn = "boxline"
    /\ res' = boxline(arg.text, arg.width, DefaultPad, arg.fill)
    /\ pc' = "boxline"
    /\ steps' = steps + 1
    /\ UNCHANGED <<dm, root, stack, out, run, out1, arg, src, ln>>

CallHline ==
    /\ pc = "ready" /\ arg.fn = "hline"
    /\ res' = hline(arg.fill, arg.width, arg.left, arg.right)
    /\ pc' = "hline"
    /\ steps' = steps + 1
    /\ UNCHANGED <<dm, root, stack, out, run, out1, arg, src, ln>>

CallBoxWidth ==
    /\ pc = "ready" /\ arg.fn = "box_width"
    /\ res' = box_width(arg.width, arg.lines, DefaultPad, arg.title)
    /\ pc' = "box_width"
    /\ steps' = steps + 1
    /\ UNCHANGED <<dm, root, stack, out, run, out1, arg, src, ln>>

\* print_chain_compact lines 173-180: the box width, then the border and one
\* boxline per line; out collects what is printed
DrawBox ==
    /\ pc = "ready" /\ arg.fn = "box"
    /\ LET box_w == box_width(arg.width, arg.lines, DefaultPad, None)
       IN  /\ res' = box_w
           /\ out' = <<hline(<<BoxHorizontal>>, box_w, <<BoxDownRight>>, <<BoxDownLeft>>)>>
                     \o [i \in 1..Len(arg.lines) |->
                            boxline(arg.lines[i], box_w, DefaultPad, <<Space>>)]
    /\ pc' = "box"
    /\ steps' = steps + 1
    /\ UNCHANGED <<dm, root, stack, run, out1, arg, src, ln>>

LayoutNext ==
    CallFitDisplay \/ CallBoxline \/ CallHline \/ CallBoxWidth \/ DrawBox

LayoutSpec == LayoutInit /\ [][LayoutNext]_vars

----------------------------------------------------------------------------
(* Properties of the layout functions                                      *)

\* the first k code points of text
Prefix(text, k) == SubSeq(text, 1, k)

\* C11: fit_display(text, w) with w >= 0 has display width exactly w: it is
\* a prefix of text, cut before the first code point that would pass column
\* w (so no two-column code point straddles it), followed by the spaces
\* that fill up to w.
FitDisplayExact ==
    (pc = "fit_display" /\ arg.width >= 0) =>
        /\ display_width(res) = arg.width
        /\ \E k \in 0..Len(arg.text) :
              /\ res = Prefix(arg.text, k)
                       \o Repeat(<<Space>>, arg.width - display_width(Prefix(arg.text, k)))
              /\ display_width(Prefix(arg.text, k)) <= arg.width
              /\ k < Len(arg.text) =>
                    display_width(Prefix(arg.text, k)) + CharWidth(arg.text[k + 1])
                        > arg.width

\* a text cut where a two-column code point would straddle the limit, one
\* space filling the column it leaves
FitDisplayWitness ==
    /\ pc = "fit_display"
    /\ display_width(arg.text) > arg.width
    /\ \E k \in 0..(Len(arg.text) - 1) :
          /\ display_width(Prefix(arg.text, k)) = arg.width - 1
          /\ arg.text[k + 1] = CjkMiddle
          /\ res = Prefix(arg.text, k) \o <<Space>>
          /\ k > 0 /\ arg.text[k] = CombiningAcute

\* C12 as stated: hline and boxline return exactly `width` display columns
\* for every width and every text.
LinesExactlyWidth ==
    pc \in {"hline", "boxline"} => display_width(res) = arg.width

\* C12: hline is exactly width columns wide when width is at least the two
\* caps and the fill takes one column, and is the two caps alone (wider than
\* width) when width is smaller; boxline is exactly width columns wide when
\* the padded text fits in width - 2 columns, and otherwise keeps the whole
\* text between the borders, wider than width.
LinesWidthWhenFitting ==
    /\ pc = "hline" =>
          /\ (arg.width >= Len(arg.left) + Len(arg.right)
                /\ display_width(arg.fill) = 1)
                => display_width(res) = arg.width
          /\ arg.width < Len(arg.left) + Len(arg.right) =>
                /\ res = arg.left \o arg.right
                /\ display_width(res) > arg.width
    /\ pc = "boxline" =>
          IF DefaultPad + display_width(arg.text) <= arg.width - 2
          THEN display_width(res) = arg.width
          ELSE /\ res = <<BoxVertical>> \o Repeat(<<Space>>, DefaultPad)
                        \o arg.text \o <<BoxVertical>>
               /\ display_width(res) > arg.width

\* boxline handed a text wider than the box leaves room for
BoxlineOverflowWitness ==
    /\ pc = "boxline"
    /\ arg.width >= 2
    /\ arg.text # <<>>
    /\ DefaultPad + display_width(arg.text) > arg.width - 2
    /\ display_width(res) > arg.width

\* the lower bounds box_width has to respect: min_width, the two border
\* columns, every padded line between the borders, the title between them
BoxWidthBounds ==
    {arg.width, 2}
    \cup {display_width(arg.lines[i]) + DefaultPad + 2 : i \in 1..Len(arg.lines)}
    \cup (IF arg.title # None THEN {display_width(arg.title) + 2} ELSE {})

\* C13: box_width(min_width, lines, title) is the smallest integer that is
\* at least min_width, at least display_width(line) + pad + 2 for every
\* line and at least display_width(title) + 2 for a given title, and never
\* less than the two border columns: with no line and no title it is
\* max(min_width, 2).
BoxWidthSmallest ==
    pc = "box_width" =>
        /\ res \in BoxWidthBounds
        /\ \A b \in BoxWidthBounds : res >= b
        /\ (arg.lines = <<>> /\ arg.title = None) => res = Max2(arg.width, 2)

\* a box whose width is decided by its widest line, a title being given
BoxWidthWitness ==
    /\ pc = "box_width"
    /\ arg.title # None /\ arg.title # <<>>
    /\ \E i \in 1..Len(arg.lines) :
          /\ CjkMiddle \in {arg.lines[i][j] : j \in 1..Len(arg.lines[i])}
          /\ res = display_width(arg.lines[i]) + DefaultPad + 2
    /\ res > arg.width
    /\ res > display_width(arg.title) + 2

\* C20: a box drawn for any min_width and any lines is rectangular: with
\* W = box_width(min_width, lines), every boxline(line, W) fits (the
\* overflow branch is not taken) and is exactly W columns wide, as wide as
\* the hline border drawn with one-column caps and fill.
BoxRectangular ==
    pc = "box" =>
        /\ res = box_width(arg.width, arg.lines, DefaultPad, None)
        /\ Len(out) = Len(arg.lines) + 1
        /\ display_width(out[1]) = res
        /\ \A i \in 1..Len(arg.lines) :
              /\ DefaultPad + display_width(arg.lines[i]) <= res - 2
              /\ display_width(out[i + 1]) = res
              /\ out[i + 1][1] = BoxVertical
              /\ out[i + 1][Len(out[i + 1])] = BoxVertical

\* a box wider than min_width, holding a line narrower than its widest one
BoxRectangularWitness ==
    /\ pc = "box"
    /\ res > arg.width
    /\ Len(arg.lines) = 2
    /\ display_width(arg.lines[1]) < display_width(arg.lines[2])
    /\ CjkMiddle \in {arg.lines[2][j] : j \in 1..Len(arg.lines[2])}
    /\ Len(out[2]) > Len(arg.lines[1]) + DefaultPad + 2

----------------------------------------------------------------------------
(***************************************************************************)
(* dm_visualizers/show_firewall_rules.py: format_target, print_chain,      *)
(* print_chain_compact, print_chain_wide.  A renderer returns what it      *)
(* computed and the rows it printed.                                       *)
(***************************************************************************)
UpperLetters == <<"A", "B", "C", "D", "E", "F", "G", "H", "I", "J", "K", "L", "M", "N", "O", "P", "Q", "R", "S", "T", "U", "V", "W", "X", "Y", "Z">>
LowerLetters == <<"a", "b", "c", "d", "e", "f", "g", "h", "i", "j", "k", "l", "m", "n", "o", "p", "q", "r", "s", "t", "u", "v", "w", "x", "y", "z">>

\* str.lower() on the letters the model draws from
LowerChar(c) ==
    IF \E i \in 1..26 : UpperLetters[i] = c
    THEN LowerLetters[CHOOSE i \in 1..26 : UpperLetters[i] = c]
    ELSE c
Lower(s) == [i \in 1..Len(s) |-> LowerChar(s[i])]

format_target(target) ==
    LET t == Lower(target)
    IN  CASE t = <<"a", "c", "c", "e", "p", "t">> -> <<CheckMark, " ">> \o target
          [] t = <<"d", "r", "o", "p">> -> <<NoEntry, " ">> \o target
          [] t = <<"r", "e", "j", "e", "c", "t">> -> <<CrossMark, " ">> \o target
          [] OTHER -> <<RightArrow, VariationSelector16, " ", " ">> \o target

\* sorted(rules.values(), key=lambda r: r['order']): a stable sort
RECURSIVE InsertByOrder(_, _)
InsertByOrder(sorted, r) ==
    IF sorted = <<>> THEN <<r>>
    ELSE IF Head(sorted).order <= r.order
         THEN <<Head(sorted)>> \o InsertByOrder(Tail(sorted), r)
    ELSE <<r>> \o sorted

RECURSIVE SortedByOrder(_)
SortedByOrder(rules) ==
    IF rules = <<>> THEN <<>>
    ELSE InsertByOrder(SortedByOrder(SubSeq(rules, 1, Len(rules) - 1)),
                       rules[Len(rules)])

\* lines 148-150 and 186, 205-206: the two title lines of a chain's box
ChainHeadLines(chain_id, chain_info) ==
    LET enable == IF chain_info.enable = <<"1">> THEN <<GreenCircle>> ELSE <<RedCircle>>
    IN  <<enable \o <<" ", "C", "h", "a", "i", "n", " ">> \o StrOf(chain_id) \o <<":", " ">> \o chain_info.name
             \o <<" ", "(">> \o chain_info.alias \o <<")">>,
          <<"R", "u", "l", "e", "s", ":", " ">> \o StrOf(chain_info.rule_count)>>

\* lines 156-171: the card line of one rule
CompactRuleLine(r) ==
    LET line1 == <<"#">> \o StrOf(r.order) \o <<" ">> \o r.alias \o <<" ", " ">>
                 \o format_target(r.target) \o <<" ", " ">> \o r.protocol
        parts == (IF r.dest_port # Star THEN <<<<"d", "s", "t", ":">> \o r.dest_port>> ELSE <<>>)
                 \o (IF r.src_port # Star THEN <<<<"s", "r", "c", ":">> \o r.src_port>> ELSE <<>>)
                 \o (IF r.src_ip # Star THEN <<<<"f", "r", "o", "m", ":">> \o r.src_ip>> ELSE <<>>)
                 \o (IF r.dest_ip # Star THEN <<<<"t", "o", ":">> \o r.dest_ip>> ELSE <<>>)
                 \o (IF r.conn_state # <<>> THEN <<<<"s", "t", "a", "t", "e", ":">> \o r.conn_state>> ELSE <<>>)
    IN  IF parts # <<>> THEN line1 \o <<" ", " ">> \o Join(parts, <<" ">>, <<>>) ELSE line1

BoxUpRight == "U+2514"
BoxUpLeft == "U+2518"
BoxVerticalRight == "U+251C"
BoxVerticalLeft == "U+2524"

\* lines 174-180 and 267-276: the rows printed for a box of lines; the fill
\* of the row at index 3 is sep_fill
PrintedBox(lines, box_w, sep_fill) ==
    <<hline(<<BoxHorizontal>>, box_w, <<BoxDownRight>>, <<BoxDownLeft>>),
      boxline(lines[1], box_w, DefaultPad, <<Space>>),
      boxline(lines[2], box_w, DefaultPad, <<Space>>),
      hline(<<BoxHorizontal>>, box_w, <<BoxVerticalRight>>, <<BoxVerticalLeft>>)>>
    \o [i \in 1..(Len(lines) - 2) |->
           boxline(lines[i + 2], box_w, DefaultPad,
                   IF i + 1 = 3 THEN sep_fill ELSE <<Space>>)]
    \o <<hline(<<BoxHorizontal>>, box_w, <<BoxUpRight>>, <<BoxUpLeft>>)>>

print_chain_compact(chain_id, chain_info, rules, width) ==
    LET sorted_rules == SortedByOrder(rules)
        lines == ChainHeadLines(chain_id, chain_info)
                 \o (IF rules = <<>> THEN <<<<"(", "n", "o", " ", "r", "u", "l", "e", "s", ")">>>>
                     ELSE [i \in 1..Len(sorted_rules) |-> CompactRuleLine(sorted_rules[i])])
        box_w == box_width(width, lines, DefaultPad, None)
    IN  [renderer |-> "print_chain_compact", lines |-> lines, box_w |-> box_w,
         columns |-> <<>>, widths |-> <<>>, shares |-> <<>>,
         printed |-> PrintedBox(lines, box_w, <<Space>>)]

Min2(a, b) == IF a <= b THEN a ELSE b

\* lines 191-203: the column widths computed from the available space
ColumnShares(width) ==
    LET avail == width - 4
        c_order == 4
        c_proto == 7
        c_dport == 7
        c_sport == 7
        fixed == c_order + c_proto + c_dport + c_sport + 4
        remaining == avail - fixed
        c_alias == Max2(8, Min2(16, remaining \div 4))
        c_target == Max2(8, Min2(14, remaining \div 4))
        c_sip == Max2(4, Min2(16, remaining \div 4))
        c_dip == Max2(4, remaining - c_alias - c_target - c_sip)
    IN  [alias |-> c_alias, target |-> c_target, src_ip |-> c_sip, dst_ip |-> c_dip]

\* lines 213-225: the cells of one rule
WideRow(r) ==
    [order |-> StrOf(r.order), alias |-> r.alias,
     target |-> format_target(r.target), proto |-> r.protocol,
     dport |-> r.dest_port, sport |-> r.src_port, src_ip |-> r.src_ip,
     dst_ip |-> r.dest_ip,
     extra |-> IF r.conn_state # <<>> THEN <<"s", "t", "a", "t", "e", ":">> \o r.conn_state ELSE <<>>]

Column(key, label) == [key |-> key, label |-> label]

\* lines 227-239
WideColumns(rows) ==
    LET has_extra == \E i \in 1..Len(rows) : rows[i].extra # <<>>
    IN  <<Column("order", <<"#">>), Column("alias", <<"A", "l", "i", "a", "s">>),
          Column("target", <<"T", "a", "r", "g", "e", "t">>), Column("proto", <<"P", "r", "o", "t", "o">>),
          Column("dport", <<"D", "P", "o", "r", "t">>), Column("sport", <<"S", "P", "o", "r", "t">>),
          Column("src_ip", <<"S", "r", "c", "I", "P">>), Column("dst_ip", <<"D", "s", "t", "I", "P">>)>>
        \o (IF has_extra THEN <<Column("extra", <<"E", "x", "t", "r", "a">>)>> ELSE <<>>)

min_widths ==
    [order |-> 4, alias |-> 8, target |-> 8, proto |-> 7, dport |-> 7,
     sport |-> 7, src_ip |-> 8, dst_ip |-> 8, extra |-> 12]

\* widths that start from nothing instead of the configured minimum
WideWidthsNoMin(rows, columns, width) ==
    [key \in {columns[i].key : i \in 1..Len(columns)} |->
        LET label == columns[CHOOSE i \in 1..Len(columns) : columns[i].key = key].label
        IN  Max({display_width(label)}
                \cup {display_width(rows[i][key]) : i \in 1..Len(rows)})]

\* lines 252-255
WideWidths(rows, columns, width) ==
    [key \in {columns[i].key : i \in 1..Len(columns)} |->
        LET label == columns[CHOOSE i \in 1..Len(columns) : columns[i].key = key].label
        IN  Max({min_widths[key], display_width(label)}
                \cup {display_width(rows[i][key]) : i \in 1..Len(rows)})]

\* lines 258, 263: a row of cells, each padded to its column
WideLine(cells, columns, widths) ==
    Join([i \in 1..Len(columns) |->
             pad_display(cells[columns[i].key], widths[columns[i].key], <<Space>>)],
         <<" ">>, <<>>)

print_chain_wide(chain_id, chain_info, rules, width) ==
    LET sorted_rules == SortedByOrder(rules)
        rows == [i \in 1..Len(sorted_rules) |-> WideRow(sorted_rules[i])]
        columns == IF rules = <<>> THEN <<>> ELSE WideColumns(rows)
        widths == IF rules = <<>> THEN <<>> ELSE WideWidths(rows, columns, width)
        header_row == [key \in {columns[i].key : i \in 1..Len(columns)} |->
                          columns[CHOOSE i \in 1..Len(columns) : columns[i].key = key].label]
        hdr == WideLine(header_row, columns, widths)
        sep == Join([i \in 1..Len(columns) |->
                        Repeat(<<BoxHorizontal>>, widths[columns[i].key])],
                    <<" ">>, <<>>)
        lines == ChainHeadLines(chain_id, chain_info)
                 \o (IF rules = <<>> THEN <<<<"(", "n", "o", " ", "r", "u", "l", "e", "s", ")">>>>
                     ELSE <<hdr, sep>>
                          \o [i \in 1..Len(rows) |-> WideLine(rows[i], columns, widths)])
        box_w == box_width(width, lines, DefaultPad, None)
    IN  [renderer |-> "print_chain_wide", lines |-> lines, box_w |-> box_w,
         columns |-> columns, widths |-> widths, shares |-> ColumnShares(width),
         printed |-> PrintedBox(lines, box_w, <<BoxHorizontal>>)]

print_chain(chain_id, chain_info, rules, width) ==
    IF width < 90 THEN print_chain_compact(chain_id, chain_info, rules, width)
    ELSE print_chain_wide(chain_id, chain_info, rules, width)

----------------------------------------------------------------------------
(***************************************************************************)
(* dm_visualizers/show_wan_manager.py: shorten_ref, resolve_alias,         *)
(* ref_label, print_wan_mode, print_wan_compact, print_wan_wide.           *)
(***************************************************************************)
shorten_ref(ref) ==
    IF ~Truthy(ref) THEN <<"-">> ELSE RStripDot(RemoveAll(ref, DeviceDot))

resolve_alias(d, ref) ==
    IF ~Truthy(ref) THEN <<>>
    ELSE LET path == RStripDot(ref)
         IN  OrElse(OrElse(get_attr(d, path, AliasAttr), get_attr(d, path, NameAttr)), <<>>)

ref_label(d, ref) ==
    LET short == shorten_ref(ref)
        alias == resolve_alias(d, ref)
    IN  IF short = <<"-">> THEN <<"-">>
        ELSE IF alias # <<>> THEN short \o <<" ", "(">> \o alias \o <<")">>
        ELSE short

\* f'{s:<{n}}': left-aligned in n code points
Ljust(s, n) == s \o Repeat(<<Space>>, n - Len(s))

\* lines 140-142 and 186-188
WanMarks(mode, is_active) ==
    [st |-> IF mode.status # <<"D", "i", "s", "a", "b", "l", "e", "d">> THEN <<GreenCircle>> ELSE <<RedCircle>>,
     sense |-> IF mode.sensing = <<"1">> THEN <<Antenna>> ELSE <<" ", " ">>,
     active |-> IF is_active THEN <<" ", BlackStar>> \o <<" ", "A", "C", "T", "I", "V", "E">> ELSE <<>>]

\* lines 174-180 and 228-234: the rows printed for the box of a WAN mode
PrintedWanBox(top_lines, body_lines, box_w) ==
    <<hline(<<BoxHorizontal>>, box_w, <<BoxDownRight>>, <<BoxDownLeft>>)>>
    \o [i \in 1..Len(top_lines) |-> boxline(top_lines[i], box_w, DefaultPad, <<Space>>)]
    \o <<hline(<<BoxHorizontal>>, box_w, <<BoxVerticalRight>>, <<BoxVerticalLeft>>)>>
    \o [i \in 1..Len(body_lines) |-> boxline(body_lines[i], box_w, DefaultPad, <<Space>>)]
    \o <<hline(<<BoxHorizontal>>, box_w, <<BoxUpRight>>, <<BoxUpLeft>>)>>

\* lines 154-171: the card lines of one interface
CompactIntfLines(d, intf) ==
    LET line == <<"I", "n", "t", "f", ".">> \o StrOf(intf.iid) \o <<" ", "\"">> \o intf.alias \o <<"\"", " ", " ">>
                \o <<"I", "P", "v", "4", ":">> \o intf.ipv4_mode \o <<" ", " ", "I", "P", "v", "6", ":">> \o intf.ipv6_mode
                \o <<" ", " ">> \o intf.type
                \o (IF intf.type = <<"v", "l", "a", "n">> THEN <<" ", "v", "l", "a", "n", ":">> \o intf.vlan_id ELSE <<>>)
        refs == (IF intf.ipv4_ref # <<>>
                 THEN <<<<"I", "P", "v", "4">> \o <<"U+2192">> \o ref_label(d, intf.ipv4_ref)>> ELSE <<>>)
                \o (IF intf.dhcpv4_ref # <<>>
                    THEN <<<<"D", "H", "C", "P", "v", "4">> \o <<"U+2192">> \o ref_label(d, intf.dhcpv4_ref)>> ELSE <<>>)
                \o (IF intf.dhcpv6_ref # <<>>
                    THEN <<<<"D", "H", "C", "P", "v", "6">> \o <<"U+2192">> \o ref_label(d, intf.dhcpv6_ref)>> ELSE <<>>)
                \o (IF intf.default_route # <<>>
                    THEN <<<<"R", "o", "u", "t", "e">> \o <<"U+2192">> \o ref_label(d, intf.default_route)>> ELSE <<>>)
    IN  <<line>> \o (IF refs # <<>> THEN <<<<" ", " ">> \o Join(refs, <<" ", "|", " ">>, <<>>)>> ELSE <<>>)

RECURSIVE Concat(_)
Concat(seqs) == IF seqs = <<>> THEN <<>> ELSE Head(seqs) \o Concat(Tail(seqs))

print_wan_compact(d, wan_id, mode, intfs, width, is_active) ==
    LET m == WanMarks(mode, is_active)
        top_lines ==
            <<m.st \o <<" ", "W", "A", "N", ".">> \o StrOf(wan_id) \o <<":", " ">> \o mode.alias \o m.active,
              <<"P", "h", "y", "s", "i", "c", "a", "l", ":", " ">> \o mode.phys_type \o <<" ", " ", "R", "e", "f", ":", " ">> \o shorten_ref(mode.phys_ref)
                 \o <<" ", " ">> \o m.sense \o <<" ", "S", "e", "n", "s", "i", "n", "g">>,
              <<"D", "N", "S", ":", " ">> \o mode.dns_mode \o <<" ", " ", "I", "P", "v", "6", "D", "N", "S", ":", " ">> \o mode.ipv6_dns
                 \o <<" ", " ", "S", "t", "a", "t", "u", "s", ":", " ">> \o mode.status>>
        body_lines ==
            IF intfs = <<>> THEN <<<<"(", "n", "o", " ", "i", "n", "t", "e", "r", "f", "a", "c", "e", "s", ")">>>>
            ELSE Concat([i \in 1..Len(intfs) |-> CompactIntfLines(d, intfs[i])])
        box_w == box_width(width, top_lines \o body_lines, DefaultPad, None)
    IN  [renderer |-> "print_wan_compact", lines |-> top_lines \o body_lines,
         box_w |-> box_w, columns |-> <<>>, widths |-> <<>>, shares |-> <<>>,
         printed |-> PrintedWanBox(top_lines, body_lines, box_w)]

\* lines 199-206: the column widths of the interface table
WanColumnWidths(width) ==
    LET c_id == 6
        c_alias == 10
        c_v4mode == 10
        c_v6mode == 10
        c_type == 10
        c_vlan == 6
        c_v4ref == 28
        c_route == Max2(10, width - c_id - c_alias - c_v4mode - c_v6mode - c_type
                            - c_vlan - c_v4ref - 12)
    IN  <<c_id, c_alias, c_v4mode, c_v6mode, c_type, c_vlan, c_v4ref, c_route>>

\* lines 208-210 and 219-224: cells left-aligned in their columns
WanTableLine(cells, c) ==
    Join([i \in 1..Len(cells) |-> Ljust(cells[i], c[i])], <<" ">>, <<>>)

print_wan_wide(d, wan_id, mode, intfs, width, is_active) ==
    LET m == WanMarks(mode, is_active)
        top_lines ==
            <<m.st \o <<" ", "W", "A", "N", ".">> \o StrOf(wan_id) \o <<":", " ">> \o mode.alias \o m.active,
              <<"P", "h", "y", "s", "i", "c", "a", "l", ":", " ">> \o mode.phys_type \o <<" ", " ", "R", "e", "f", ":", " ">> \o shorten_ref(mode.phys_ref)
                 \o <<" ", " ">> \o m.sense \o <<" ", "S", "e", "n", "s", "i", "n", "g", " ", " ", "S", "t", "a", "t", "u", "s", ":", " ">> \o mode.status
                 \o <<" ", " ", "D", "N", "S", ":", " ">> \o mode.dns_mode \o <<" ", " ", "I", "P", "v", "6", "D", "N", "S", ":", " ">> \o mode.ipv6_dns>>
        c == WanColumnWidths(width)
        hdr == WanTableLine(<<<<"I", "n", "t", "f">>, <<"A", "l", "i", "a", "s">>, <<"I", "P", "v", "4", "M", "o", "d", "e">>, <<"I", "P", "v", "6", "M", "o", "d", "e">>, <<"T", "y", "p", "e">>,
                              <<"V", "L", "A", "N">>, <<"I", "P", "v", "4", "R", "e", "f">>, <<"D", "e", "f", "R", "o", "u", "t", "e">>>>, c)
        sep == Join([i \in 1..Len(c) |-> Repeat(<<BoxHorizontal>>, c[i])], <<" ">>, <<>>)
        body_lines ==
            IF intfs = <<>> THEN <<<<"(", "n", "o", " ", "i", "n", "t", "e", "r", "f", "a", "c", "e", "s", ")">>>>
            ELSE <<hdr, sep>>
                 \o [i \in 1..Len(intfs) |->
                        WanTableLine(<<StrOf(intfs[i].iid), intfs[i].alias,
                                       intfs[i].ipv4_mode, intfs[i].ipv6_mode,
                                       intfs[i].type,
                                       IF intfs[i].type = <<"v", "l", "a", "n">>
                                       THEN intfs[i].vlan_id ELSE <<"-">>,
                                       ref_label(d, intfs[i].ipv4_ref),
                                       ref_label(d, intfs[i].default_route)>>, c)]
        box_w == box_width(width, top_lines \o body_lines, DefaultPad, None)
    IN  [renderer |-> "print_wan_wide", lines |-> top_lines \o body_lines,
         box_w |-> box_w, columns |-> <<>>, widths |-> c, shares |-> <<>>,
         printed |-> PrintedWanBox(top_lines, body_lines, box_w)]

\* print_wan_mode that takes the compact layout up to and including 90
print_wan_mode_le(d, wan_id, mode, intfs, width, is_active) ==
    IF width <= 90 THEN print_wan_compact(d, wan_id, mode, intfs, width, is_active)
    ELSE print_wan_wide(d, wan_id, mode, intfs, width, is_active)

print_wan_mode(d, wan_id, mode, intfs, width, is_active) ==
    IF width < 90 THEN print_wan_compact(d, wan_id, mode, intfs, width, is_active)
    ELSE print_wan_wide(d, wan_id, mode, intfs, width, is_active)

(***************************************************************************)
(* dm_visualizers/show_logical_stack.py: main, the box drawn above each    *)
(* logical interface.  main calls warn_narrow_width() and drops the width  *)
(* it returns; between the boxes it calls walk_stack, the walk of Spec.    *)
(***************************************************************************)
LogicalPrefix == <<"D", "e", "v", "i", "c", "e", ".", "L", "o", "g", "i", "c", "a", "l", ".", "I", "n", "t", "e", "r", "f", "a", "c", "e", ".">>

\* lines 73-79: the ids of the logical interfaces, ascending
LogicalIds(d) ==
    SortedSet({IdOf(d[i].k, LogicalPrefix, DotName) :
                  i \in {j \in 1..Len(d) : IdMatch(d[j].k, LogicalPrefix, DotName)}})

\* lines 83-88
LogicalLabel(d, lid) ==
    LET obj == SubSeq(LogicalPrefix, 1, Len(LogicalPrefix) - 1) \o Dot \o StrOf(lid)
        wan_status == OrElse(get_attr(d, obj, <<"X", "_", "P", "R", "P", "L", "W", "A", "R", "E", "-", "C", "O", "M", "_", "W", "A", "N", ".", "S", "t", "a", "t", "u", "s">>), <<>>)
        lan_status == OrElse(get_attr(d, obj, <<"X", "_", "P", "R", "P", "L", "W", "A", "R", "E", "-", "C", "O", "M", "_", "L", "A", "N", ".", "S", "t", "a", "t", "u", "s">>), <<>>)
        role == IF wan_status = <<"E", "n", "a", "b", "l", "e", "d">> THEN <<"W", "A", "N">>
                ELSE IF lan_status = <<"E", "n", "a", "b", "l", "e", "d">> THEN <<"L", "A", "N">> ELSE <<"?">>
    IN  <<" ", " ", "L", "o", "g", "i", "c", "a", "l", ".", "I", "n", "t", "e", "r", "f", "a", "c", "e", ".">> \o StrOf(lid) \o <<" ", "\"">> \o resolve_name(d, obj)
        \o <<"\"", " ", " ", "(", "R", "o", "l", "e", ":", " ">> \o role \o <<")">>

BoxDoubleHorizontal == "U+2550"
BoxDoubleVertical == "U+2551"
BoxDoubleDownRight == "U+2554"
BoxDoubleDownLeft == "U+2557"
BoxDoubleUpRight == "U+255A"
BoxDoubleUpLeft == "U+255D"

\* lines 96-99 and 151-153; width is the terminal width, which main never reads
logical_main(d, width) ==
    LET ids == LogicalIds(d)
        labels == [i \in 1..Len(ids) |-> LogicalLabel(d, ids[i])]
        box_inner_width == Max({78} \cup {Len(labels[i]) : i \in 1..Len(labels)})
    IN  [renderer |-> "main", lines |-> labels, box_w |-> box_inner_width + 2,
         columns |-> <<>>, widths |-> <<>>, shares |-> <<>>,
         printed |->
            Concat([i \in 1..Len(labels) |->
               <<<<BoxDoubleDownRight>> \o Repeat(<<BoxDoubleHorizontal>>, box_inner_width)
                    \o <<BoxDoubleDownLeft>>,
                 <<BoxDoubleVertical>> \o labels[i]
                    \o Repeat(<<Space>>, box_inner_width - Len(labels[i]))
                    \o <<BoxDoubleVertical>>,
                 <<BoxDoubleUpRight>> \o Repeat(<<BoxDoubleHorizontal>>, box_inner_width)
                    \o <<BoxDoubleUpLeft>>>>])]

----------------------------------------------------------------------------
(* The views' renderers applied to rule sets, WAN modes and logical         *)
(* interfaces at terminal widths around the threshold                       *)

\* the most rules in a chain, and how far the widths reach around 90
MaxRules == 2
WidthSpan == 8

TermWidths == ((90 - WidthSpan)..(90 + WidthSpan)) \cup {40, 60, 120}

\* a rule as discover_rules returns it, the fields not given being defaults
Rule(order, alias, target, dest_port, src_ip, dest_ip, conn_state) ==
    [alias |-> alias, order |-> order, enable |-> <<"1">>, status |-> <<>>,
     target |-> target, protocol |-> PROTO_MAP(<<"6">>), dest_port |-> dest_port,
     src_port |-> Star, src_ip |-> src_ip, dest_ip |-> dest_ip,
     conn_state |-> conn_state, ip_version |-> MinusOne]

RuleVariants ==
    {Rule(1, <<"r", "1">>, <<"a", "c", "c", "e", "p", "t">>, Star, Star, Star, <<>>),
     Rule(2, <<"r", "2">>, <<"D", "r", "o", "p">>, <<"8", "0", "-", "9", "0">>, Star, <<"1", "0", ".", "0", ".", "0", ".", "0", "/", "8">>, <<"N", "E", "W">>),
     Rule(1, <<"a", "-", "v", "e", "r", "y", "-", "l", "o", "n", "g", "-", "a", "l", "i", "a", "s", "1">>, <<"r", "e", "j", "e", "c", "t">>, Star, Star, Star, <<>>),
     Rule(2, <<CjkMiddle, "r">>, <<"l", "o", "g">>, Star, Star, Star, <<"E", "S", "T", "A", "B", "L", "I", "S", "H", "E", "D", ",", "R", "E", "L", "A", "T", "E", "D">>),
     Rule(3, <<>>, <<>>, Star, <<"2", "0", "0", "1", ":", "d", "b", "8", ":", ":", "1", "/", "6", "4">>, Star, <<>>),
     Rule(1, <<"r", "6">>, <<"a", "-", "t", "a", "r", "g", "e", "t", "-", "o", "f", "-", "2", "0", "-", "c", "h", "a", "r", "s">>, <<"4", "4", "3">>, Star, Star, <<>>)}

TheChain ==
    [name |-> <<"B", "a", "s", "e">>, alias |-> <<"b", "a", "s", "e">>, enable |-> <<"1">>, rule_count |-> 2]

WanMode(status) ==
    [alias |-> <<"E", "t", "h", "e", "r", "n", "e", "t", "_", "D", "H", "C", "P">>, status |-> status, phys_type |-> <<"E", "t", "h", "e", "r", "n", "e", "t">>,
     phys_ref |-> <<"D", "e", "v", "i", "c", "e", ".", "E", "t", "h", "e", "r", "n", "e", "t", ".", "I", "n", "t", "e", "r", "f", "a", "c", "e", ".", "1", ".">>, dns_mode |-> <<"D", "y", "n", "a", "m", "i", "c">>,
     ipv6_dns |-> <<"D", "y", "n", "a", "m", "i", "c">>, sensing |-> <<"1">>, sensing_pri |-> <<"0">>,
     sfp_type |-> <<>>, origin |-> <<>>]

\* an interface as discover_intfs returns it, with its id
Intf(iid, alias, type, vlan_id, ipv4_ref) ==
    [iid |-> iid, alias |-> alias, name |-> <<>>, ipv4_mode |-> <<"d", "h", "c", "p", "4">>,
     ipv6_mode |-> <<"-">>, ipv4_ref |-> ipv4_ref, ipv6_ref |-> <<>>,
     dhcpv4_ref |-> <<>>, dhcpv6_ref |-> <<>>, type |-> type, vlan_id |-> vlan_id,
     default_route |-> <<>>, bridge_ref |-> <<>>, pppv4_ref |-> <<>>,
     pppv6_ref |-> <<>>]

IntfLists ==
    {<<>>,
     <<Intf(1, <<"w", "a", "n">>, <<"u", "n", "t", "a", "g", "g", "e", "d">>, <<"-">>, <<>>)>>,
     <<Intf(1, <<"w", "a", "n">>, <<"u", "n", "t", "a", "g", "g", "e", "d">>, <<"-">>, <<>>),
       Intf(2, <<"i", "p", "t", "v">>, <<"v", "l", "a", "n">>, <<"1", "0", "0">>, <<"D", "e", "v", "i", "c", "e", ".", "I", "P", ".", "I", "n", "t", "e", "r", "f", "a", "c", "e", ".", "2", ".">>)>>}

LogicalStores ==
    {<<>>,
     <<Entry(LogicalPrefix \o <<"1", ".", "N", "a", "m", "e">>, <<"w", "a", "n">>),
       Entry(LogicalPrefix \o <<"1", ".", "X", "_", "P", "R", "P", "L", "W", "A", "R", "E", "-", "C", "O", "M", "_", "W", "A", "N", ".", "S", "t", "a", "t", "u", "s">>, <<"E", "n", "a", "b", "l", "e", "d">>)>>,
     <<Entry(LogicalPrefix \o <<"2", ".", "N", "a", "m", "e">>, <<"l", "a", "n">>),
       Entry(LogicalPrefix \o <<"1", ".", "N", "a", "m", "e">>,
             <<"a", "-", "l", "o", "g", "i", "c", "a", "l", "-", "i", "n", "t", "e", "r", "f", "a", "c", "e", "-", "w", "h", "o", "s", "e", "-", "n", "a", "m", "e", "-", "i", "s", "-", "a", "s", "-", "l", "o", "n", "g", "-", "a", "s", "-", "s", "i", "x", "t", "y", "-", "c", "h", "a", "r", "a", "c", "t", "e", "r", "s">>)>>}

ViewArgs(fn, width, rules, mode, intfs, is_active) ==
    [fn |-> fn, width |-> width, rules |-> rules, mode |-> mode, intfs |-> intfs,
     is_active |-> is_active]

ViewInit ==
    /\ \/ /\ \E fn \in {"print_chain", "print_chain_wide"}, w \in TermWidths,
                rs \in SeqsUpTo(RuleVariants, MaxRules) :
                arg = ViewArgs(fn, w, rs, <<>>, <<>>, FALSE)
          /\ dm = <<>>
       \/ /\ \E w \in TermWidths, st \in {<<"D", "i", "s", "a", "b", "l", "e", "d">>, <<"E", "n", "a", "b", "l", "e", "d">>},
                is \in IntfLists, a \in BOOLEAN :
                arg = ViewArgs("print_wan_mode", w, <<>>, WanMode(st), is, a)
          /\ dm = <<>>
       \/ /\ \E w \in TermWidths :
                arg = ViewArgs("main", w, <<>>, <<>>, <<>>, FALSE)
          /\ dm \in LogicalStores
    /\ pc = "ready"
    /\ res = Idle
    /\ root = Idle /\ stack = <<>> /\ out = <<>> /\ run = 1
    /\ out1 = <<>> /\ src = Idle /\ ln = 0 /\ steps = 0

PrintChain ==
    /\ pc = "ready" /\ arg.fn = "print_chain"
    /\ res' = print_chain(1, TheChain, arg.rules, arg.width)
    /\ out' = out \o res'.printed
    /\ pc' = "print_chain"
    /\ steps' = steps + 1
    /\ UNCHANGED <<dm, root, stack, run, out1, arg, src, ln>>

CallPrintChainWide ==
    /\ pc = "ready" /\ arg.fn = "print_chain_wide"
    /\ res' = print_chain_wide(1, TheChain, arg.rules, arg.width)
    /\ out' = out \o res'.printed
    /\ pc' = "print_chain_wide"
    /\ steps' = steps + 1
    /\ UNCHANGED <<dm, root, stack, run, out1, arg, src, ln>>

PrintWanMode ==
    /\ pc = "ready" /\ arg.fn = "print_wan_mode"
    /\ res' = print_wan_mode(dm, 1, arg.mode, arg.intfs, arg.width, arg.is_active)
    /\ out' = out \o res'.printed
    /\ pc' = "print_wan_mode"
    /\ steps' = steps + 1
    /\ UNCHANGED <<dm, root, stack, run, out1, arg, src, ln>>

LogicalMain ==
    /\ pc = "ready" /\ arg.fn = "main"
    /\ res' = logical_main(dm, arg.width)
    /\ out' = out \o res'.printed
    /\ pc' = "main"
    /\ steps' = steps + 1
    /\ UNCHANGED <<dm, root, stack, run, out1, arg, src, ln>>

ViewNext == PrintChain \/ CallPrintChainWide \/ PrintWanMode \/ LogicalMain

ViewSpec == ViewInit /\ [][ViewNext]_vars

----------------------------------------------------------------------------
(* Properties of the views' layouts                                        *)

CompactRenderers == {"print_chain_compact", "print_wan_compact"}
WideRenderers == {"print_chain_wide", "print_wan_wide"}

\* a separator row: runs of the horizontal glyph with single spaces between
IsSeparator(line) ==
    /\ line # <<>>
    /\ \A i \in 1..Len(line) : line[i] \in {BoxHorizontal, Space}
    /\ line[1] = BoxHorizontal

\* the rows of a view's table: a header, a separator and n rows from line k on
IsTable(lines, k, n) ==
    /\ Len(lines) = k + 1 + n
    /\ IsSeparator(lines[k + 1])
    /\ \A i \in 1..Len(lines) : i # k + 1 => ~IsSeparator(lines[i])

\* C14 as stated: every view, the logical-stack view included, renders
\* compact below 90 columns and wide at 90 columns or more.
ThresholdInEveryView ==
    pc \in {"print_chain", "print_wan_mode", "main"} =>
        IF arg.width < 90 THEN res.renderer \in CompactRenderers
        ELSE res.renderer \in WideRenderers

\* C14: the firewall view and the WAN view render each object with exactly
\* one renderer, the compact one for every width below 90 and the wide one
\* (header, separator, rows) for every width of 90 or more; the
\* logical-stack view has one layout, the same at every terminal width.
ThresholdInChainAndWanViews ==
    /\ pc \in {"print_chain", "print_wan_mode", "main"} => out = res.printed
    /\ pc = "print_chain" =>
          IF arg.width < 90
          THEN /\ res.renderer = "print_chain_compact"
               /\ Len(res.lines) = 2 + Max2(1, Len(arg.rules))
               /\ \A i \in 1..Len(res.lines) : ~IsSeparator(res.lines[i])
          ELSE /\ res.renderer = "print_chain_wide"
               /\ arg.rules # <<>> => IsTable(res.lines, 3, Len(arg.rules))
               /\ arg.rules = <<>> => Len(res.lines) = 3
    /\ pc = "print_wan_mode" =>
          IF arg.width < 90
          THEN /\ res.renderer = "print_wan_compact"
               /\ \A i \in 1..Len(res.lines) : ~IsSeparator(res.lines[i])
          ELSE /\ res.renderer = "print_wan_wide"
               /\ arg.intfs # <<>> => IsTable(res.lines, 3, Len(arg.intfs))
               /\ arg.intfs = <<>> => Len(res.lines) = 3
    /\ pc = "main" =>
          /\ res.renderer = "main"
          /\ \A w \in TermWidths : logical_main(dm, w) = res

\* the logical-stack view on a 60-column terminal: the same 80-column boxes
\* as on a wide one
LogicalViewWitness ==
    /\ pc = "main"
    /\ arg.width = 60
    /\ dm # <<>>
    /\ res.box_w = 80
    /\ Len(out) = 3 /\ Len(out[2]) = 80

\* the state after a wide rendering of a chain that has rules
WideRendered ==
    /\ pc \in {"print_chain", "print_chain_wide"}
    /\ res.renderer = "print_chain_wide"
    /\ arg.rules # <<>>

VariableColumns == {"alias", "target", "src_ip", "dst_ip"}

\* C15: at every terminal width of 90 or more, the Alias, Target, SrcIP and
\* DstIP columns are rendered as wide as their share of the width left
\* after the fixed columns, clamped to the field's [min, max].
ColumnsFollowShares ==
    (WideRendered /\ arg.width >= 90) =>
        \A key \in VariableColumns : res.widths[key] = res.shares[key]

ColumnKeys == {res.columns[i].key : i \in 1..Len(res.columns)}
LabelOf(key) ==
    res.columns[CHOOSE i \in 1..Len(res.columns) : res.columns[i].key = key].label
SortedRows == [i \in 1..Len(arg.rules) |-> WideRow(SortedByOrder(arg.rules)[i])]

\* the cells of a row, each whole and followed by the spaces that fill its
\* column, one space between columns
WholeCells(cells) ==
    Join([i \in 1..Len(res.columns) |->
             LET key == res.columns[i].key
             IN  cells[key] \o Repeat(<<Space>>, res.widths[key] - display_width(cells[key]))],
         <<Space>>, <<>>)

\* C16: in the wide layout every column is at least as wide as its
\* configured minimum, its header and each of its cells, at any terminal
\* width, so every cell is printed whole and the box may be wider than the
\* terminal; the Extra column is there exactly when some rule has a
\* connection state.
ColumnsNeverShrink ==
    /\ WideRendered =>
          /\ \A key \in ColumnKeys :
                /\ res.widths[key] >= min_widths[key]
                /\ res.widths[key] >= display_width(LabelOf(key))
                /\ \A i \in 1..Len(SortedRows) :
                      res.widths[key] >= display_width(SortedRows[i][key])
          /\ \A i \in 1..Len(SortedRows) :
                /\ res.lines[4 + i] = WholeCells(SortedRows[i])
                /\ display_width(res.lines[4 + i]) = display_width(res.lines[3])
                /\ display_width(res.lines[4 + i]) = display_width(res.lines[4])
          /\ \A i \in 1..Len(out) : display_width(out[i]) = res.box_w
          /\ res.box_w >= arg.width
          /\ "extra" \in ColumnKeys <=>
                \E i \in 1..Len(arg.rules) : arg.rules[i].conn_state # <<>>
    /\ (pc \in {"print_chain", "print_chain_wide"} /\ arg.rules = <<>>) =>
          res.columns = <<>>

\* a table wider than the terminal: an alias wider than the column's
\* minimum, printed whole, and an Extra column
WiderThanTerminalWitness ==
    /\ WideRendered
    /\ arg.width >= 90
    /\ res.box_w > arg.width
    /\ "extra" \in ColumnKeys
    /\ res.widths["alias"] > 16
    /\ \E i \in 1..Len(arg.rules) : display_width(arg.rules[i].alias) = res.widths["alias"]

----------------------------------------------------------------------------
(***************************************************************************)
(* visualize.py: discover_visualizers, resolve_visualizer,                 *)
(* select_interactive, prompt_dm_path, main.  A run of main is cut at the  *)
(* calls of input(); what input() gives is the terminal's choice: a line,  *)
(* or the end of the input (EOFError).                                     *)
(***************************************************************************)
\* the characters of the names drawn from, in code point order
OrderedChars == <<".", "0", "1", "2", "3", "4", "5", "6", "7", "8", "9", "A", "B", "H", "O", "S", "W", "_", "a", "b", "d", "e", "h", "m", "n", "o", "p", "s", "t", "u", "w", "x", "y">>
Rank(c) == CHOOSE i \in 1..Len(OrderedChars) : OrderedChars[i] = c

\* a < b for two str
RECURSIVE StrLess(_, _)
StrLess(a, b) ==
    IF b = <<>> THEN FALSE
    ELSE IF a = <<>> THEN TRUE
    ELSE IF Head(a) = Head(b) THEN StrLess(Tail(a), Tail(b))
    ELSE Rank(Head(a)) < Rank(Head(b))

StartsWith(s, prefix) == IsPrefix(prefix, s)
EndsWith(s, suffix) ==
    Len(s) >= Len(suffix) /\ SubSeq(s, Len(s) - Len(suffix) + 1, Len(s)) = suffix

\* sorted(entries, key=lambda item: item['name'])
RECURSIVE SortedByName(_)
SortedByName(S) ==
    IF S = {} THEN <<>>
    ELSE LET first == CHOOSE e \in S : \A o \in S \ {e} : StrLess(e.name, o.name)
         IN  <<first>> \o SortedByName(S \ {first})

VisDir == <<"d", "m", "_", "v", "i", "s", "u", "a", "l", "i", "z", "e", "r", "s", "/">>

\* listing: the directory entries of VIS_DIR, each a name and whether it is
\* a regular file
discover_visualizers(listing) ==
    SortedByName({[file |-> e.name,
                   name |-> SubSeq(e.name, 1, Len(e.name) - 3),
                   path |-> VisDir \o e.name] :
                     e \in {l \in listing :
                               /\ EndsWith(l.name, <<".", "p", "y">>)
                               /\ ~StartsWith(l.name, <<"_">>)
                               /\ StartsWith(l.name, <<"s", "h", "o", "w", "_">>)
                               /\ l.isfile}})

\* an Optional entry or exit status: <<>> for None, <<x>> for x
Nothing == <<>>
Some(x) == <<x>>

\* lines 52-56 and 80-84: the entries a lowered prefix matches
PrefixMatches(text, entries) ==
    SelectSeq(entries,
              LAMBDA entry : \/ StartsWith(Lower(entry.name), Lower(text))
                             \/ StartsWith(Lower(entry.file), Lower(text)))

\* resolve_visualizer that settles several prefix matches by taking the first
resolve_visualizer_first(text, entries) ==
    IF text = <<>> THEN Nothing
    ELSE IF \E i \in 1..Len(entries) : text = entries[i].name \/ text = entries[i].file
    THEN Some(entries[CHOOSE i \in 1..Len(entries) :
                         /\ text = entries[i].name \/ text = entries[i].file
                         /\ \A j \in 1..(i - 1) :
                               text # entries[j].name /\ text # entries[j].file])
    ELSE IF Len(PrefixMatches(text, entries)) >= 1
    THEN Some(PrefixMatches(text, entries)[1])
    ELSE Nothing

resolve_visualizer(text, entries) ==
    IF text = <<>> THEN Nothing
    ELSE IF \E i \in 1..Len(entries) : text = entries[i].name \/ text = entries[i].file
    THEN Some(entries[CHOOSE i \in 1..Len(entries) :
                         /\ text = entries[i].name \/ text = entries[i].file
                         /\ \A j \in 1..(i - 1) :
                               text # entries[j].name /\ text # entries[j].file])
    ELSE IF Len(PrefixMatches(text, entries)) = 1
    THEN Some(PrefixMatches(text, entries)[1])
    ELSE Nothing

\* print_list: one numbered line per entry
print_list(entries) ==
    [i \in 1..Len(entries) |->
        <<" ", " ">> \o StrOf(i) \o <<".", " ">> \o entries[i].name \o <<" ", "(">> \o entries[i].file \o <<")">>]

SuperscriptTwo == "U+00B2"

\* str.isdigit(): not empty and digits only; the superscript two is a digit
\* to isdigit and no decimal digit to int()
isdigit(s) == s # <<>> /\ \A i \in 1..Len(s) : IsDigit(s[i]) \/ s[i] = SuperscriptTwo

\* the files and directories that exist
ExistingFiles == {<<"a", ".", "t", "x", "t">>, <<"d", "u", "m", "p">>}
ExistingDirs == {<<"d", "m">>}
isfile(p) == p \in ExistingFiles
exists(p) == p \in ExistingFiles \cup ExistingDirs
DefaultDm == <<"D", "M", ".", "t", "x", "t">>

File(name, regular) == [name |-> name, isfile |-> regular]

Listings ==
    {{},
     {File(<<"n", "o", "t", "e", "s", ".", "t", "x", "t">>, TRUE), File(<<"_", "s", "h", "o", "w", "_", "x", ".", "p", "y">>, TRUE), File(<<"s", "h", "o", "w", "_", "d", ".", "p", "y">>, FALSE)},
     {File(<<"s", "h", "o", "w", "_", "w", "a", "n", ".", "p", "y">>, TRUE)},
     {File(<<"s", "h", "o", "w", "_", "w", "a", "n", ".", "p", "y">>, TRUE), File(<<"s", "h", "o", "w", "_", "w", "a", "n", "2", ".", "p", "y">>, TRUE), File(<<"s", "h", "o", "w", "_", "B", ".", "p", "y">>, TRUE)},
     {File(<<"s", "h", "o", "w", "_", "a", ".", "p", "y", ".", "p", "y">>, TRUE), File(<<"s", "h", "o", "w", "_", "a", ".", "p", "y">>, TRUE), File(<<"s", "h", "o", "w", "_", "a", "b", ".", "p", "y">>, TRUE)}}

Argvs ==
    {<<>>, <<<<"s", "h", "o", "w", "_", "w", "a", "n">>>>, <<<<"s", "h", "o", "w", "_", "w", "a", "n">>, <<"a", ".", "t", "x", "t">>>>, <<<<"a", ".", "t", "x", "t">>>>, <<<<"d", "u", "m", "p">>>>,
     <<<<"n", "o", "f", "i", "l", "e">>>>, <<<<"n", "o", "f", "i", "l", "e">>, <<"a", ".", "t", "x", "t">>>>, <<<<"s", "h", "o", "w", "_">>, <<"a", ".", "t", "x", "t">>>>,
     <<<<"s", "h", "o", "w", "_", "a", ".", "p", "y">>, <<>>>>, <<<<"S", "H", "O", "W", "_", "B">>, <<"n", "o", "f", "i", "l", "e">>>>}

\* what is typed at the selection prompt, before strip()
Choices ==
    {<<>>, <<" ", "1", " ">>, <<"2">>, <<"0">>, <<"9">>, <<SuperscriptTwo>>, <<"s", "h", "o", "w", "_", "w", "a", "n">>, <<"s", "h", "o", "w", "_">>,
     <<"S", "h", "o", "w", "_", "W", "a", "n", "2">>, <<"s", "h", "o", "w", "_", "a", ".", "p", "y">>, <<"s", "h", "o", "w", "_", "a">>, <<"z", "z", "z">>}

\* what is typed at the file prompt, before strip()
PathAnswers == {<<>>, <<" ", "a", ".", "t", "x", "t">>, <<"n", "o", "f", "i", "l", "e">>, <<"d", "m">>}

ReturnCodes == {0, 1, 3}

\* the most prompts answered in one run
MaxPrompts == 2

Running(entries, selected, dm_path, prompts) ==
    [entries |-> entries, selected |-> selected, dm_path |-> dm_path,
     children |-> <<>>, status |-> Nothing, error |-> "", prompts |-> prompts,
     choice |-> None]

LauncherInit ==
    /\ \/ /\ \E l \in Listings, c \in Choices :
                arg = [fn |-> "resolve_visualizer", listing |-> l, argv |-> <<c>>,
                       has_default |-> FALSE]
          /\ pc = "ready"
       \/ /\ \E l \in Listings, a \in Argvs, d \in BOOLEAN :
                arg = [fn |-> "main", listing |-> l, argv |-> a, has_default |-> d]
          /\ pc = "start"
    /\ res = Idle
    /\ dm = <<>> /\ root = Idle /\ stack = <<>> /\ out = <<>> /\ run = 1
    /\ out1 = <<>> /\ src = Idle /\ ln = 0 /\ steps = 0

CallResolveVisualizer ==
    /\ pc = "ready" /\ arg.fn = "resolve_visualizer"
    /\ res' = resolve_visualizer(arg.argv[1], discover_visualizers(arg.listing))
    /\ pc' = "resolve_visualizer"
    /\ steps' = steps + 1
    /\ UNCHANGED <<dm, root, stack, out, run, out1, arg, src, ln>>

\* lines 208-216: where main goes once the arguments are dealt with
NextPrompt(selected, dm_path) ==
    IF selected = Nothing THEN "select"
    ELSE IF ~Truthy(dm_path) THEN "dm_path"
    ELSE "invoke"

\* lines 185-206: main up to its first prompt, its invocation or its exit
MainStart ==
    /\ pc = "start"
    /\ LET entries == discover_visualizers(arg.listing)
           args == arg.argv
           selected == IF args # <<>> THEN resolve_visualizer(args[1], entries) ELSE Nothing
           dm_path == IF args = <<>> THEN None
                      ELSE IF selected # Nothing
                      THEN (IF Len(args) > 1 THEN args[2] ELSE None)
                      ELSE IF Len(args) = 1 /\ (EndsWith(args[1], <<".", "t", "x", "t">>) \/ exists(args[1]))
                      THEN args[1]
                      ELSE None
       IN  IF entries = <<>>
           THEN /\ res' = [Running(entries, Nothing, None, 0) EXCEPT !.status = Some(1)]
                /\ pc' = "exited"
           ELSE IF args # <<>> /\ selected = Nothing /\ dm_path = None
           THEN /\ res' = [Running(entries, Nothing, None, 0) EXCEPT !.status = Some(2)]
                /\ pc' = "exited"
           ELSE /\ res' = Running(entries, selected, dm_path, 0)
                /\ pc' = NextPrompt(selected, dm_path)
    /\ out' = <<>>
    /\ steps' = steps + 1
    /\ UNCHANGED <<dm, root, stack, run, out1, arg, src, ln>>

\* lines 71-89: one turn of select_interactive's loop on a line that int()
\* takes or that is no number; out is what the turn prints
SelectAnswer ==
    /\ pc = "select" /\ res.prompts < MaxPrompts
    /\ \E line \in Choices :
          LET choice == Strip(line)
              entries == res.entries
              in_range == isdigit(choice) /\ 1 <= IntVal(choice) /\ IntVal(choice) <= Len(entries)
              resolved == resolve_visualizer(choice, entries)
              matches == PrefixMatches(choice, entries)
          IN  /\ isdigit(choice) => IntOk(choice)
              /\ IF in_range
                 THEN /\ res' = [res EXCEPT !.selected = Some(entries[IntVal(choice)]),
                                            !.choice = choice,
                                            !.prompts = @ + 1]
                      /\ pc' = NextPrompt(Some(entries[IntVal(choice)]), res.dm_path)
                      /\ out' = <<>>
                 ELSE IF choice # <<>> /\ resolved # Nothing
                 THEN /\ res' = [res EXCEPT !.selected = resolved, !.choice = choice,
                                            !.prompts = @ + 1]
                      /\ pc' = NextPrompt(resolved, res.dm_path)
                      /\ out' = <<>>
                 ELSE /\ res' = [res EXCEPT !.choice = choice, !.prompts = @ + 1]
                      /\ pc' = "select"
                      /\ out' = IF choice # <<>> /\ matches # <<>>
                                THEN <<<<"M", "a", "t", "c", "h", "e", "s", ":">>>> \o print_list(matches)
                                ELSE <<<<"I", "n", "v", "a", "l", "i", "d", " ", "s", "e", "l", "e", "c", "t", "i", "o", "n", ".", " ", "T", "r", "y", " ", "a", "g", "a", "i", "n", ".">>>>
    /\ steps' = steps + 1
    /\ UNCHANGED <<dm, root, stack, run, out1, arg, src, ln>>

\* lines 72-73: a line that isdigit() accepts and int() refuses
SelectValueError ==
    /\ pc = "select" /\ res.prompts < MaxPrompts
    /\ \E line \in Choices :
          /\ isdigit(Strip(line)) /\ ~IntOk(Strip(line))
          /\ res' = [res EXCEPT !.choice = Strip(line), !.prompts = @ + 1,
                                !.error = "ValueError", !.status = Some(1)]
    /\ pc' = "raised"
    /\ out' = <<>>
    /\ steps' = steps + 1
    /\ UNCHANGED <<dm, root, stack, run, out1, arg, src, ln>>

\* lines 71 and 174: input() at the end of the input
InputEOF ==
    /\ pc \in {"select", "dm_path"}
    /\ res' = [res EXCEPT !.error = "EOFError", !.status = Some(1)]
    /\ pc' = "raised"
    /\ out' = <<>>
    /\ steps' = steps + 1
    /\ UNCHANGED <<dm, root, stack, run, out1, arg, src, ln>>

\* lines 169-181: one turn of prompt_dm_path's loop
PathAnswer ==
    /\ pc = "dm_path" /\ res.prompts < MaxPrompts
    /\ \E line \in PathAnswers :
          LET value == Strip(line)
          IN  IF value = <<>> /\ arg.has_default
              THEN /\ res' = [res EXCEPT !.dm_path = DefaultDm, !.prompts = @ + 1]
                   /\ pc' = "invoke"
                   /\ out' = <<>>
              ELSE IF value # <<>> /\ isfile(value)
              THEN /\ res' = [res EXCEPT !.dm_path = value, !.prompts = @ + 1]
                   /\ pc' = "invoke"
                   /\ out' = <<>>
              ELSE /\ res' = [res EXCEPT !.prompts = @ + 1]
                   /\ pc' = "dm_path"
                   /\ out' = <<<<"F", "i", "l", "e", " ", "n", "o", "t", " ", "f", "o", "u", "n", "d", ".", " ", "T", "r", "y", " ", "a", "g", "a", "i", "n", ".">>>>
    /\ steps' = steps + 1
    /\ UNCHANGED <<dm, root, stack, run, out1, arg, src, ln>>

\* lines 218-223: the child is run and its return code becomes the exit status
Invoke ==
    /\ pc = "invoke"
    /\ \E returncode \in ReturnCodes :
          LET cmd == <<<<"p", "y", "t", "h", "o", "n", "3">>, res.selected[1].path>>
                     \o (IF Truthy(res.dm_path) THEN <<res.dm_path>> ELSE <<>>)
          IN  res' = [res EXCEPT !.children = Append(@, cmd), !.status = Some(returncode)]
    /\ pc' = "exited"
    /\ out' = <<<<"R", "u", "n", "n", "i", "n", "g", " ">> \o res.selected[1].file \o <<" ", ".", ".", ".">>>>
    /\ steps' = steps + 1
    /\ UNCHANGED <<dm, root, stack, run, out1, arg, src, ln>>

LauncherNext ==
    \/ CallResolveVisualizer \/ MainStart \/ SelectAnswer \/ SelectValueError
    \/ InputEOF \/ PathAnswer \/ Invoke

LauncherSpec == LauncherInit /\ [][LauncherNext]_vars

----------------------------------------------------------------------------
(* Properties of the launcher                                              *)

Discovered == discover_visualizers(arg.listing)

\* the places in entries whose name or file name is text
ExactAt(text, entries) ==
    {i \in 1..Len(entries) : entries[i].name = text \/ entries[i].file = text}

\* the places in entries whose name or file name starts with text, case aside
PrefixAt(text, entries) ==
    {i \in 1..Len(entries) :
        \/ StartsWith(Lower(entries[i].name), Lower(text))
        \/ StartsWith(Lower(entries[i].file), Lower(text))}

\* C17: resolve_visualizer(arg, entries) returns the entry whose name or
\* file name equals arg when there is one (the first in the list, also when
\* arg is a prefix of other entries); otherwise the one entry whose name or
\* file name starts with arg, case aside, when exactly one does; otherwise,
\* for an empty arg, no match or several prefix matches, None.
ResolveExactThenUniquePrefix ==
    pc = "resolve_visualizer" =>
        LET text == arg.argv[1]
            exact == ExactAt(text, Discovered)
            prefix == PrefixAt(text, Discovered)
        IN  IF text # <<>> /\ exact # {}
            THEN res = Some(Discovered[Min(exact)])
            ELSE IF text # <<>> /\ Cardinality(prefix) = 1
            THEN res = Some(Discovered[CHOOSE i \in prefix : TRUE])
            ELSE res = Nothing

\* a name that is an entry's own and the prefix of another's
ExactAmongPrefixesWitness ==
    /\ pc = "resolve_visualizer"
    /\ Cardinality(PrefixAt(arg.argv[1], Discovered)) >= 2
    /\ Cardinality(ExactAt(arg.argv[1], Discovered)) = 1
    /\ res # Nothing
    /\ res[1].name = arg.argv[1]

\* the first argument neither resolves to a view nor is a lone input file
BadFirstArgument ==
    /\ arg.argv # <<>>
    /\ resolve_visualizer(arg.argv[1], Discovered) = Nothing
    /\ ~(Len(arg.argv) = 1
           /\ (EndsWith(arg.argv[1], <<".", "t", "x", "t">>) \/ exists(arg.argv[1])))

\* C18: a run that reaches the invocation starts exactly one child, the
\* selected view with the input path as its only argument, and exits with
\* the child's return code; a run ends without a child only when no view is
\* discovered (status 1) or the first argument is bad (status 2).
OneChildOrUsageExit ==
    /\ pc \in {"start", "select", "dm_path", "invoke"} => res = Idle \/ res.children = <<>>
    /\ (pc \in {"exited", "raised"} /\ res.children # <<>>) =>
          /\ Len(res.children) = 1
          /\ res.selected # Nothing
          /\ \E i \in 1..Len(res.entries) : res.entries[i] = res.selected[1]
          /\ res.children[1] = <<<<"p", "y", "t", "h", "o", "n", "3">>, res.selected[1].path, res.dm_path>>
          /\ res.dm_path # <<>> /\ res.dm_path # None
          /\ res.status \in {Some(rc) : rc \in ReturnCodes}
    /\ (pc \in {"exited", "raised"} /\ res.children = <<>>) =>
          \/ Discovered = <<>> /\ res.status = Some(1)
          \/ Discovered # <<>> /\ BadFirstArgument /\ res.status = Some(2)

\* the answer is no usable selection: empty, out of range, unknown or a
\* prefix of several entries
BadAnswer(choice, entries) ==
    /\ ~(isdigit(choice) /\ IntOk(choice)
           /\ 1 <= IntVal(choice) /\ IntVal(choice) <= Len(entries))
    /\ choice = <<>> \/ resolve_visualizer(choice, entries) = Nothing

\* C19: select_interactive never fails on an answer: it returns an element
\* of entries (by number in range, exact name or unambiguous prefix), and
\* after an empty, out-of-range, unknown or ambiguous answer it prompts
\* again, listing the candidates of an ambiguous prefix, and does not raise.
SelectionNeverFails ==
    /\ ~(pc = "raised" /\ res.error = "ValueError")
    /\ (pc \in {"select", "dm_path", "invoke"} /\ res.choice # None) =>
          IF BadAnswer(res.choice, res.entries)
          THEN /\ pc = "select"
               /\ out # <<>>
               /\ (res.choice # <<>>
                     /\ Cardinality(PrefixAt(res.choice, res.entries)) >= 2) =>
                     out = <<<<"M", "a", "t", "c", "h", "e", "s", ":">>>>
                           \o print_list(PrefixMatches(res.choice, res.entries))
          ELSE /\ pc # "select"
               /\ \E i \in 1..Len(res.entries) : res.selected = Some(res.entries[i])

====
